---- MODULE Spec2Model ----
(***************************************************************************)
(* A model of src/src/scroll.js: the ScrollContainer (one tracker per      *)
(* scrollable surface), the ScrollObserver (one per watched element) and   *)
(* the threshold resolver.  JavaScript runs one handler at a time, so each *)
(* event handler, timer callback and public method is one atomic action.   *)
(***************************************************************************)
EXTENDS Integers, Sequences, FiniteSets, TLC

\* ------------------------------------------------------------------ bounds
\* number of ScrollObserver objects ever constructed (Spec builds one less)
MaxObs == 3
\* number of ScrollContainer objects ever constructed
MaxTrk == 1
\* largest scroll offset of the surface on the y axis
MaxScroll == 5
\* largest scroll offset of the surface on the x axis
MaxScrollX == 1
\* size of the surface's viewport along an axis (container.width / height)
ViewSize == 1
\* offset of the watched element inside the scrolled content
TargetOffset == 2
\* size of the watched element along an axis
TargetSize == 1
\* cap of the per-observer callback counters of the sweep specifications
MaxCount == 3
\* how far a resize can grow the side of the surface's visible square
MaxGrow == 1
\* duration of a linked object: its currentTime is in 0..MaxTime
MaxTime == 2

\* ------------------------------------------------------- program constants
\* round(clamp(p, 0, 1), 6): progress is kept in millionths
PScale == 1000000
\* pixel lengths inside the threshold resolver are kept in hundredths
VScale == 100
\* the smoothing number of velocity-smoothed sync is kept in thousandths
SmoothUnit == 1000
\* the smoothing number the observers of the model are given: 0.5
SmoothK == 500

Null == 0
ObsIds == 1..MaxObs
TrkIds == 1..MaxTrk

\* `const x = v; ...rest`: the rest of a function body, F, applied to the
\* value v of a local or to the state after a statement
With(v, F(_)) == F(v)

\* ------------------------------------------------------- helpers.js (spec)
\* clamp(v, min, max)
clamp(v, lo, hi) == IF v < lo THEN lo ELSE IF v > hi THEN hi ELSE v

\* Math.round of the fraction num / den (den > 0): floor(x + 0.5)
roundDiv(num, den) == (2 * num + den) \div (2 * den)

\* round(num / den, 6) in millionths, for 0 <= num and 0 < den: the digits
\* are taken three at a time, so that no product leaves the integers of the
\* model checker
roundRatio(num, den) ==
  With((num * 1000) \div den, LAMBDA q1 :
  With((((num * 1000) % den) * 1000) \div den, LAMBDA q2 :
  With((((num * 1000) % den) * 1000) % den, LAMBDA r2 :
    q1 * 1000 + q2 + (IF 2 * r2 >= den THEN 1 ELSE 0))))

\* round(v, 0) of a length kept in hundredths
round0(h) == roundDiv(h, VScale)

\* getRelativeValue(x, y, operator) on lengths kept in hundredths
getRelativeValue(x, y, operator) ==
  IF operator = "-" THEN x - y
  ELSE IF operator = "+" THEN x + y
  ELSE (x * y) \div VScale

\* ------------------------------------------------------ threshold resolver
\* An operand of a threshold: a keyword, a percentage, a pixel string or a
\* JavaScript number.
Kw(k) == [t |-> "kw", k |-> k, n |-> 0]
Pct(n) == [t |-> "pct", k |-> "", n |-> n]
Px(n) == [t |-> "px", k |-> "", n |-> n]
Num(n) == [t |-> "num", k |-> "", n |-> n]
\* A threshold value: one operand, or 'A<op>=B'
Plain(a) == [a |-> a, op |-> "", b |-> Num(0)]
Rel(a, op, b) == [a |-> a, op |-> op, b |-> b]

IsKw(v, k) == v.t = "kw" /\ v.k = k

\* convertValueToPx($el, v, size, under, over); an absent under / over is 0,
\* which fails both `under < 0` and `over > 0` as undefined does
convertValueToPxMutCenter(v, size, under, over) ==
  (IF v.t = "kw"
     THEN IF v.k \in {"top", "left", "start", "min"} THEN 0 ELSE size
     ELSE IF v.t = "pct" THEN (v.n * size) \div 100
     ELSE v.n * VScale)
  + (IF IsKw(v, "max") /\ under < 0 THEN under ELSE 0)
  + (IF IsKw(v, "min") /\ over > 0 THEN over ELSE 0)

convertValueToPx(v, size, under, over) ==
  (IF v.t = "kw"
     THEN IF v.k \in {"top", "left", "start", "min"} THEN 0
          ELSE IF v.k \in {"bottom", "right", "end", "max"} THEN size
          ELSE (50 * size) \div 100
     ELSE IF v.t = "pct" THEN (v.n * size) \div 100
     ELSE v.n * VScale)
  + (IF IsKw(v, "max") /\ under < 0 THEN under ELSE 0)
  + (IF IsKw(v, "min") /\ over > 0 THEN over ELSE 0)

\* parseBoundValue($el, v, size, under, over), in whole pixels
parseBoundValueMutFlip(v, size, under, over) ==
  IF v.op # ""
    THEN With(convertValueToPx(v.a, size, under, over), LAMBDA valueAPx :
         With(convertValueToPx(v.b, size, under, over), LAMBDA valueBPx :
           IF IsKw(v.a, "min")
             THEN With(getRelativeValue(convertValueToPx(Kw("min"), size, 0, 0), valueBPx, v.op),
                       LAMBDA min : round0(IF min < valueAPx THEN min ELSE valueAPx))
           ELSE IF IsKw(v.a, "max")
             THEN With(getRelativeValue(convertValueToPx(Kw("max"), size, 0, 0), valueBPx, v.op),
                       LAMBDA max : round0(IF max > valueAPx THEN max ELSE valueAPx))
           ELSE round0(getRelativeValue(valueAPx, valueBPx, v.op))))
    ELSE IF v.a.t = "num" THEN v.a.n
    ELSE round0(convertValueToPx(v.a, size, under, over))

parseBoundValue(v, size, under, over) ==
  IF v.op # ""
    THEN With(convertValueToPx(v.a, size, under, over), LAMBDA valueAPx :
         With(convertValueToPx(v.b, size, under, over), LAMBDA valueBPx :
           IF IsKw(v.a, "min")
             THEN With(getRelativeValue(convertValueToPx(Kw("min"), size, 0, 0), valueBPx, v.op),
                       LAMBDA min : round0(IF min < valueAPx THEN valueAPx ELSE min))
           ELSE IF IsKw(v.a, "max")
             THEN With(getRelativeValue(convertValueToPx(Kw("max"), size, 0, 0), valueBPx, v.op),
                       LAMBDA max : round0(IF max > valueAPx THEN valueAPx ELSE max))
           ELSE round0(getRelativeValue(valueAPx, valueBPx, v.op))))
    ELSE IF v.a.t = "num" THEN v.a.n
    ELSE round0(convertValueToPx(v.a, size, under, over))

\* ---------------------------------------------------------------- progress
\* get progress(): (scroll - offsetStart) / distance, Infinity and NaN give 0,
\* else round(clamp(p, 0, 1), 6); the result is in millionths
progressMutNoClamp(scroll, offsetStart, distance) ==
  IF distance = 0 THEN 0
  ELSE roundDiv((scroll - offsetStart) * PScale, distance)

progress(scroll, offsetStart, distance) ==
  LET num == scroll - offsetStart
  IN  IF distance = 0
        THEN 0
      ELSE IF distance > 0
        THEN IF num <= 0 THEN 0
             ELSE IF num >= distance THEN PScale
             ELSE roundRatio(num, distance)
      ELSE IF num >= 0 THEN 0
           ELSE IF -num >= -distance THEN PScale
           ELSE roundRatio(-num, -distance)

\* ----------------------------------------------------------------- state
\* obs      : ObsIds -> the ScrollObserver objects (made = FALSE: not yet built)
\* trk      : TrkIds -> the ScrollContainer objects
\* registry : the scrollContainers map of the one surface: a tracker id or Null
\* dom      : the host's layout: the surface's true scroll offsets and the
\*            side of its visible square
\* hist     : what the last handler did: its name, its argument, the observer
\*            list it started from and the calls it made, in order
\* tally    : when switched on, the record of observer 1 since Init: the
\*            scroll offsets its evaluations sampled and its enter and leave
\*            callbacks, in order; or only whether its onEnter and onLeave
\*            were called
\* probe    : the arguments and the result of a pure function under test
VARIABLES obs, trk, registry, dom, hist, tally, probe

vars == <<obs, trk, registry, dom, hist, tally, probe>>

\* setValue(target, default): the default for an undefined parameter
setValue(target, default) == IF target = "undef" THEN default ELSE target

\* The threshold strings an observer can be given for enter and leave:
\* '<container> <target>' split at the space
DefaultEnterMutStart == <<Plain(Kw("start")), Plain(Kw("start"))>>

DefaultEnter == <<Plain(Kw("end")), Plain(Kw("start"))>>
DefaultLeave == <<Plain(Kw("start")), Plain(Kw("end"))>>
Thresholds == {DefaultEnter, DefaultLeave}

\* The parameters of `new ScrollObserver(parameters)`:
\*   repeat  "undef" | "true" | "false"
\*   sync    "undef" (the default 'play pause') | "false"; the observers of
\*           the sync specifications also take the values of SyncModes
\*   enter, leave   a threshold string, <<>> when the parameter is undefined
\*   axis    "undef" | "x" | "y"
\*   target  whether parameters.target is given
\*   onEnter what the user's onEnter callback does: Null (it only observes)
\*           or the id of an observer it calls revert() on
Params == [repeat : {"undef", "true", "false"},
           sync : {"undef", "false"},
           enter : {<<>>} \cup Thresholds,
           leave : {<<>>} \cup Thresholds,
           axis : {"undef", "x", "y"},
           target : BOOLEAN,
           onEnter : {Null} \cup ObsIds]

\* The values of the sync parameter: left out (the default 'play pause'),
\* false, one method name, four method names, the name of an easing, 'linear',
\* and a smoothing number below 1
SyncModes == {"undef", "false", "one", "four", "ease", "linear", "smooth"}

NoParams == [repeat |-> "undef", sync |-> "undef", enter |-> <<>>,
             leave |-> <<>>, axis |-> "undef", target |-> TRUE, onEnter |-> Null]

\* An observer slot before `new ScrollObserver` ran for it
NoObserver ==
  [made |-> FALSE, params |-> NoParams, container |-> Null, target |-> FALSE,
   linked |-> FALSE, linkedCompleted |-> FALSE, linkedTime |-> 0,
   repeat |-> FALSE, horizontal |-> FALSE,
   enter |-> DefaultEnter, leave |-> DefaultLeave,
   sync |-> FALSE, syncEase |-> FALSE, syncSmooth |-> 0, syncMethods |-> 0,
   reverted |-> FALSE, completed |-> FALSE, began |-> FALSE, isInView |-> FALSE,
   forceEnter |-> FALSE, hasEntered |-> FALSE,
   offset |-> 0, offsetStart |-> 0, offsetEnd |-> 0, distance |-> 0,
   prevProgress |-> 0, prev |-> Null, next |-> Null,
   pendingSync |-> FALSE, gRev |-> FALSE, gSelf |-> FALSE]

\* A tracker slot before `new ScrollContainer` ran for it
NoTracker ==
  [made |-> FALSE, width |-> 0, height |-> 0, scrollWidth |-> 0, scrollHeight |-> 0,
   scrollX |-> 0, scrollY |-> 0, prevScrollX |-> 0, prevScrollY |-> 0,
   backwardX |-> FALSE, backwardY |-> FALSE,
   scrollTicker |-> "paused", began |-> FALSE, dataTimer |-> "paused",
   resizeTicker |-> "paused", wakeTicker |-> "paused",
   head |-> Null, tail |-> Null, resizeObserver |-> FALSE, listener |-> FALSE]

\* The program state the handlers thread through their calls
State == [obs |-> obs, trk |-> trk, reg |-> registry, dom |-> dom, ev |-> <<>>]

\* One recorded call: the observer, the function called, whether a revert()
\* of that observer had already returned (gone), whether the observer had
\* already reverted itself at line 949 (self), the scroll offset and the
\* progress of the evaluation, and the isInView field at the call.
\* The fields gRev (revert() has returned) and gSelf (line 949 ran) of an
\* observer are history, no field of the code.
Emit(S, o, cb, p, wasIn) ==
  [S EXCEPT !.ev = Append(@, [o |-> o, cb |-> cb, gone |-> S.obs[o].gRev,
                              self |-> S.obs[o].gSelf,
                              sc |-> IF S.obs[o].horizontal
                                       THEN S.trk[S.obs[o].container].scrollX
                                       ELSE S.trk[S.obs[o].container].scrollY,
                              p |-> p, wasIn |-> wasIn])]

\* A call of a method of tracker t, recorded in the same log: no observer, no
\* progress
EmitTrk(S, t, cb) ==
  [S EXCEPT !.ev = Append(@, [o |-> Null, cb |-> cb, gone |-> FALSE, self |-> FALSE,
                              sc |-> S.dom.scrollY, p |-> 0, wasIn |-> FALSE])]

\* ------------------------------------------------ helpers.js list (spec)
\* addChild(parent, child): append at the tail
addChild(S, t, o) ==
  With(S.trk[t].tail, LAMBDA prev :
  With(IF prev # Null THEN S.obs[prev].next ELSE S.trk[t].head, LAMBDA next :
  With(IF prev # Null THEN [S EXCEPT !.obs[prev].next = o]
                      ELSE [S EXCEPT !.trk[t].head = o], LAMBDA S1 :
  With(IF next # Null THEN [S1 EXCEPT !.obs[next].prev = o]
                      ELSE [S1 EXCEPT !.trk[t].tail = o], LAMBDA S2 :
    [S2 EXCEPT !.obs[o].prev = prev, !.obs[o].next = next]))))

\* removeChild(parent, child): splice the child out through its own links
removeChild(S, t, o) ==
  With(S.obs[o].prev, LAMBDA prev :
  With(S.obs[o].next, LAMBDA next :
  With(IF prev # Null THEN [S EXCEPT !.obs[prev].next = next]
                      ELSE [S EXCEPT !.trk[t].head = next], LAMBDA S1 :
  With(IF next # Null THEN [S1 EXCEPT !.obs[next].prev = prev]
                      ELSE [S1 EXCEPT !.trk[t].tail = prev], LAMBDA S2 :
    [S2 EXCEPT !.obs[o].prev = Null, !.obs[o].next = Null]))))

\* The observers reached from a node by following the links one way
RECURSIVE Chain(_, _, _, _)
Chain(O, n, reverse, fuel) ==
  IF n = Null \/ fuel = 0 THEN <<>>
  ELSE <<n>> \o Chain(O, IF reverse THEN O[n].prev ELSE O[n].next, reverse, fuel - 1)

\* The tracker's list, from _head along _next
Members(O, T, t) == Chain(O, T[t].head, FALSE, MaxObs)
\* The same list read from _tail along _prev
MembersBack(O, T, t) == Chain(O, T[t].tail, TRUE, MaxObs)

InSeq(x, s) == \E i \in 1..Len(s) : s[i] = x

\* ------------------------------------------------------- ScrollContainer
\* ScrollContainer.revert()
ScrollContainer_revert(S, t) ==
  [S EXCEPT !.trk[t].scrollTicker = "cancelled",
            !.trk[t].dataTimer = "cancelled",
            !.trk[t].resizeTicker = "cancelled",
            !.trk[t].wakeTicker = "cancelled",
            !.trk[t].resizeObserver = FALSE,
            !.trk[t].listener = FALSE,
            !.reg = Null]

\* ScrollContainer.updateScrollCoords()
updateScrollCoords(S, t) ==
  [S EXCEPT !.trk[t].scrollX = S.dom.scrollX, !.trk[t].scrollY = S.dom.scrollY]

\* ScrollContainer.updateBounds(): the surface's geometry, read from the host.
\* The content is MaxScrollX by MaxScroll larger than the visible square.
ScrollContainer_updateBounds(S, t) ==
  [EmitTrk(S, t, "ScrollContainer.updateBounds")
     EXCEPT !.trk[t].scrollWidth = MaxScrollX + S.dom.view,
            !.trk[t].scrollHeight = MaxScroll + S.dom.view,
            !.trk[t].width = S.dom.view,
            !.trk[t].height = S.dom.view]

\* ScrollContainer.handleScroll(): sample the offsets, restart the wake window
ScrollContainer_handleScrollMutNoWake(S, t) == updateScrollCoords(S, t)

ScrollContainer_handleScroll(S, t) ==
  [updateScrollCoords(S, t) EXCEPT !.trk[t].wakeTicker = "armed"]

\* ------------------------------------------------------- ScrollObserver
\* get backward()
backwardMutY(S, o) == S.trk[S.obs[o].container].backwardY

backward(S, o) ==
  IF S.obs[o].horizontal THEN S.trk[S.obs[o].container].backwardX
                         ELSE S.trk[S.obs[o].container].backwardY

\* get scroll()
scroll(S, o) ==
  IF S.obs[o].horizontal THEN S.trk[S.obs[o].container].scrollX
                         ELSE S.trk[S.obs[o].container].scrollY

\* ScrollObserver.revert()
ScrollObserver_revert(S, o) ==
  IF S.obs[o].reverted THEN S
  ELSE With(S.obs[o].container, LAMBDA container :
       With(removeChild(S, container, o), LAMBDA S1 :
       With(IF S1.trk[container].head = Null THEN ScrollContainer_revert(S1, container) ELSE S1,
            LAMBDA S2 : [S2 EXCEPT !.obs[o].reverted = TRUE, !.obs[o].gRev = TRUE])))

\* Lines 456-466: the place in the sync parameter's list of method names of
\* the method a sync slot holds
syncSlotMutPairs(cb) ==
  IF cb \in {"onSyncEnter", "onSyncEnterForward"} THEN 1
  ELSE IF cb = "onSyncLeave" THEN 2
  ELSE IF cb = "onSyncEnterBackward" THEN 2
  ELSE IF cb = "onSyncLeaveForward" THEN 3
  ELSE 4

syncSlot(cb) ==
  IF cb \in {"onSyncEnter", "onSyncEnterForward"} THEN 1
  ELSE IF cb \in {"onSyncLeave", "onSyncLeaveForward"} THEN 2
  ELSE IF cb = "onSyncEnterBackward" THEN 3
  ELSE 4

\* A call of one of the observer's callbacks.  The sync slots hold noop unless
\* the sync parameter names methods; a sync method calls the method of that
\* name on the linked object, when there is one (lines 424-427), which is
\* recorded with the method's place as p; the user's onEnter may revert an
\* observer.
Call(S, o, cb, p) ==
  LET ob == S.obs[o]
      isSync == cb \in {"onSyncEnter", "onSyncLeave", "onSyncEnterForward",
                        "onSyncLeaveForward", "onSyncEnterBackward", "onSyncLeaveBackward"}
      biDir == cb \in {"onSyncEnterForward", "onSyncLeaveForward",
                       "onSyncEnterBackward", "onSyncLeaveBackward"}
      noop == isSync /\ (syncSlot(cb) > ob.syncMethods \/ (biDir <=> ob.syncMethods <= 2))
  IN  IF noop THEN S
      ELSE With(Emit(S, o, cb, p, ob.isInView), LAMBDA S0 :
           With(IF isSync /\ ob.linked
                  THEN Emit(S0, o, "linked.method", syncSlot(cb), ob.isInView) ELSE S0,
                LAMBDA S1 :
             IF cb = "onEnter" /\ ob.params.onEnter # Null /\ S.obs[ob.params.onEnter].made
               THEN ScrollObserver_revert(S1, ob.params.onEnter)
               ELSE S1))

\* handleScroll, line 856
isBeforeOfMutStrict(sc, offsetStart) == sc < offsetStart

isBeforeOf(sc, offsetStart) == sc <= offsetStart
\* handleScroll, line 857
isAfterOf(sc, offsetEnd) == sc >= offsetEnd

\* handleScroll, line 859
isOnTheEdgeOfMutStart(sc, offsetStart, offsetEnd) == sc = offsetStart

isOnTheEdgeOf(sc, offsetStart, offsetEnd) == sc = offsetStart \/ sc = offsetEnd

\* handleScroll, line 900: whether the enter callbacks run, from the fields
\* forceEnter and hasEntered
enterFiresMutAlways(forceEnter, hasEntered) == TRUE

enterFiresMutOnce(forceEnter, hasEntered) == ~hasEntered

enterFires(forceEnter, hasEntered) == ~forceEnter \/ ~hasEntered

\* handleScroll, lines 898-916: the enter callbacks
hsEnter(S, o, isInView, forceEnter, p) ==
  LET ob == S.obs[o]
      cond == (isInView /\ ~ob.isInView) \/ (forceEnter /\ ~ob.forceEnter /\ ~ob.hasEntered)
  IN  IF ~cond THEN S
      ELSE With(IF isInView THEN [S EXCEPT !.obs[o].isInView = TRUE] ELSE S, LAMBDA Sa :
             IF enterFires(ob.forceEnter, ob.hasEntered)
               THEN With(Call(Call(Sa, o, "onSyncEnter", p), o, "onEnter", p), LAMBDA Sb :
                    With(IF backward(Sb, o)
                           THEN Call(Call(Sb, o, "onSyncEnterBackward", p), o, "onEnterBackward", p)
                           ELSE Call(Call(Sb, o, "onSyncEnterForward", p), o, "onEnterForward", p),
                         LAMBDA Sc :
                           [Sc EXCEPT !.obs[o].hasEntered = TRUE,
                                      !.obs[o].forceEnter = IF forceEnter THEN TRUE ELSE @]))
             ELSE IF isInView THEN [Sa EXCEPT !.obs[o].forceEnter = FALSE]
             ELSE Sa)

\* handleScroll, lines 927-937: the leave callbacks
hsLeaveMutStay(S, o, p) ==
  With(Call(Call(S, o, "onSyncLeave", p), o, "onLeave", p),
       LAMBDA Sb :
         IF backward(Sb, o)
           THEN Call(Call(Sb, o, "onSyncLeaveBackward", p), o, "onLeaveBackward", p)
           ELSE Call(Call(Sb, o, "onSyncLeaveForward", p), o, "onLeaveForward", p))

hsLeave(S, o, p) ==
  With(Call(Call([S EXCEPT !.obs[o].isInView = FALSE], o, "onSyncLeave", p), o, "onLeave", p),
       LAMBDA Sb :
         IF backward(Sb, o)
           THEN Call(Call(Sb, o, "onSyncLeaveBackward", p), o, "onLeaveBackward", p)
           ELSE Call(Call(Sb, o, "onSyncLeaveForward", p), o, "onLeaveForward", p))

\* handleScroll, line 943: whether this evaluation completes the observer
completesMutNoSync(p, began, completed, sync, syncCompleted) ==
  p >= PScale /\ began /\ ~completed

completes(p, began, completed, sync, syncCompleted) ==
  p >= PScale /\ began /\ ~completed /\ ((sync /\ syncCompleted) \/ ~sync)

\* handleScroll, line 948: whether the completed observer reverts itself
selfRevertsMutRepeat(repeat, linked, linkedCompleted) ==
  (repeat /\ ~linked) \/ (repeat /\ linked /\ linkedCompleted)

selfRevertsMutLinked(repeat, linked, linkedCompleted) == ~repeat

selfReverts(repeat, linked, linkedCompleted) ==
  (~repeat /\ ~linked) \/ (~repeat /\ linked /\ linkedCompleted)

\* handleScroll, lines 943-951
hsComplete(S, o, p, sync, linked, syncCompleted) ==
  IF ~completes(p, S.obs[o].began, S.obs[o].completed, sync, syncCompleted) THEN S
  ELSE With([(IF sync THEN Call(S, o, "onSyncComplete", p) ELSE S)
               EXCEPT !.obs[o].completed = TRUE], LAMBDA Sb :
         IF selfReverts(Sb.obs[o].repeat, linked, Sb.obs[o].linkedCompleted)
           THEN [ScrollObserver_revert(Sb, o) EXCEPT !.obs[o].gSelf = TRUE]
           ELSE Sb)

\* The linked object of an observer: its duration is MaxTime units of time
\* and its time cursor linkedTime is kept in millionths of a unit.
\* linked.seek(time, muteCallbacks) moves the cursor to the time, kept within
\* 0 and the duration.  The call is recorded with the time as p and
\* muteCallbacks as wasIn.
linkedSeek(S, o, time, muteCallbacks) ==
  [Emit(S, o, "linked.seek", time, muteCallbacks)
     EXCEPT !.obs[o].linkedTime = clamp(time, 0, MaxTime * PScale)]

\* linked.progress, in millionths: currentTime / duration
linkedProgress(ob) == roundDiv(ob.linkedTime, MaxTime)

\* An easing function (spec): the quadratic ease-in p * p, on millionths
syncEaseOf(p) ==
  With(p \div 1000, LAMBDA a :
  With(p % 1000, LAMBDA b :
    a * a + (2 * a * b * 1000 + b * b + PScale \div 2) \div PScale))

\* interpolate(.01, .2, syncSmooth), in thousandths
smoothFactor(syncSmooth) == 10 + (190 * syncSmooth) \div SmoothUnit

\* handleScroll, lines 879-880: round(lerp(lp, p, factor) + snap, 6), with
\* lerp(lp, p, factor) = lp + (p - lp) * factor (spec) and the snap of one
\* ten-thousandth towards an end that the progress has reached
smoothed(lp, p, syncSmooth) ==
  With(IF lp < p /\ p = PScale THEN 100 ELSE IF lp > p /\ p = 0 THEN 0 - 100 ELSE 0,
       LAMBDA snap :
         roundDiv(lp * (SmoothUnit - smoothFactor(syncSmooth)) + p * smoothFactor(syncSmooth),
                  SmoothUnit) + snap)

\* handleScroll, lines 874-884: the progress the tick goes on with
remapped(shouldSeek, syncEase, syncSmooth, lp, p) ==
  IF ~shouldSeek THEN p
  ELSE IF syncSmooth # 0
    THEN IF syncSmooth < SmoothUnit THEN smoothed(lp, p, syncSmooth) ELSE p
  ELSE IF syncEase THEN syncEaseOf(p)
  ELSE p

\* handleScroll, line 887: whether the tick restarts the wake window
keepsAwakeMutNever(hasUpdated, syncCompleted, syncSmooth, lp) == FALSE

keepsAwake(hasUpdated, syncCompleted, syncSmooth, lp) ==
  hasUpdated /\ ~syncCompleted /\ syncSmooth # 0 /\ lp # 0

\* handleScroll, lines 885 and 918-920: whether the evaluation updates, from
\* the change of the remapped progress of a seeking observer, isInView of
\* this evaluation and the isInView field
hasUpdatedOfMutInView(seekUpdated, isInView, wasInView) == seekUpdated \/ isInView

hasUpdatedOf(seekUpdated, isInView, wasInView) ==
  seekUpdated \/ isInView \/ (~isInView /\ wasInView)

\* handleScroll, lines 953-955: completed after the evaluation
uncompletedMutNever(p, completed) == completed

uncompleted(p, completed) == IF p < PScale /\ completed THEN FALSE ELSE completed

\* ScrollObserver.handleScroll().  began follows the raw progress (lines
\* 866-872); everything after line 874 uses the remapped one.
ScrollObserver_handleScroll(S, o) ==
  LET ob == S.obs[o]
      sc == scroll(S, o)
      isBefore == isBeforeOf(sc, ob.offsetStart)
      isAfter == isAfterOf(sc, ob.offsetEnd)
      isInView == ~isBefore /\ ~isAfter
      isOnTheEdge == isOnTheEdgeOf(sc, ob.offsetStart, ob.offsetEnd)
      forceEnter == ~ob.hasEntered /\ isOnTheEdge
      shouldSeek == ob.linked /\ (ob.syncEase \/ ob.syncSmooth # 0)
      lp == linkedProgress(ob)
  IN  With(progress(sc, ob.offsetStart, ob.distance), LAMBDA raw :
      With(IF isBefore /\ ob.began THEN FALSE ELSE ob.began, LAMBDA began1 :
      With(remapped(shouldSeek, ob.syncEase, ob.syncSmooth, lp, raw), LAMBDA p :
      With([Emit(S, o, "handleScroll", p, ob.isInView)
              EXCEPT !.obs[o].began = IF raw > 0 /\ ~began1 THEN TRUE ELSE began1], LAMBDA S0 :
      With(IF keepsAwake(shouldSeek /\ p # ob.prevProgress, shouldSeek /\ lp = PScale,
                         ob.syncSmooth, lp)
             THEN [S0 EXCEPT !.trk[ob.container].wakeTicker = "armed"] ELSE S0, LAMBDA S1 :
      With(hsEnter(S1, o, isInView, forceEnter, p), LAMBDA S2 :
      With(hasUpdatedOf(shouldSeek /\ p # ob.prevProgress, isInView, S2.obs[o].isInView),
           LAMBDA hasUpdated :
      With(IF hasUpdated
             THEN Call(IF shouldSeek THEN linkedSeek(S2, o, MaxTime * p, FALSE) ELSE S2,
                       o, "onUpdate", p)
             ELSE S2, LAMBDA S3 :
      With(~isInView /\ S3.obs[o].isInView, LAMBDA leaving :
      With(IF leaving THEN hsLeave(S3, o, p) ELSE S3, LAMBDA S4 :
      With((shouldSeek /\ lp = PScale) \/ (leaving /\ ob.sync /\ ob.syncSmooth = 0),
           LAMBDA syncCompleted :
      With(hsComplete(S4, o, p, ob.sync, ob.linked, syncCompleted), LAMBDA S5 :
        [S5 EXCEPT !.obs[o].completed = uncompleted(p, @),
                   !.obs[o].prevProgress = p]))))))))))))

\* updateBounds, line 833
distanceOfMutNoFloor(scrollDelta) == scrollDelta

distanceOf(scrollDelta) == IF scrollDelta <= 0 THEN 0 ELSE scrollDelta

\* updateBounds, lines 783-833: the bounds from the thresholds and the
\* measured geometry.  The lengths taken and returned are in hundredths of a
\* pixel; parseBoundValue returns whole pixels.
boundsOf(enter, leave, offset, targetSize, containerSize, maxScroll) ==
  LET enterContainer == enter[1]
      enterTarget == IF Len(enter) > 1 THEN enter[2] ELSE Plain(Kw("start"))
      leaveContainer == leave[1]
      leaveTarget == IF Len(leave) > 1 THEN leave[2] ELSE Plain(Kw("end"))
  IN  With(parseBoundValue(enterTarget, targetSize, 0, 0) * VScale, LAMBDA parsedEnterTarget :
      With(parseBoundValue(leaveTarget, targetSize, 0, 0) * VScale, LAMBDA parsedLeaveTarget :
      With((parsedEnterTarget + offset) - containerSize, LAMBDA under :
      With((parsedLeaveTarget + offset) - maxScroll, LAMBDA over :
      With(parseBoundValue(enterContainer, containerSize, under, over) * VScale,
           LAMBDA parsedEnterContainer :
      With(parseBoundValue(leaveContainer, containerSize, under, over) * VScale,
           LAMBDA parsedLeaveContainer :
      With(parsedEnterTarget + offset - parsedEnterContainer, LAMBDA offsetStart :
      With(parsedLeaveTarget + offset - parsedLeaveContainer, LAMBDA offsetEnd :
        [offsetStart |-> offsetStart, offsetEnd |-> offsetEnd,
         distance |-> distanceOf(offsetEnd - offsetStart)]))))))))

\* updateBounds, lines 769-835: the measurement.  The target's rectangle is
\* read from the host at its true scroll offset; a linked animation has moved
\* its target by one pixel per unit of its currentTime; container.scrollX /
\* scrollY, width / height and scrollWidth / scrollHeight are the tracker's
\* cached fields.  The surface and its target measure whole pixels, so the
\* bounds are whole pixels and the observer's fields keep them in pixels.
measureBounds(S, o) ==
  LET ob == S.obs[o]
      c == S.trk[ob.container]
      isHori == ob.horizontal
      rectStart == TargetOffset + (IF ob.linked THEN ob.linkedTime \div PScale ELSE 0)
                     - (IF isHori THEN S.dom.scrollX ELSE S.dom.scrollY)
      targetSize == TargetSize
      containerSize == IF isHori THEN c.width ELSE c.height
      scrollSize == IF isHori THEN c.scrollWidth ELSE c.scrollHeight
      maxScroll == scrollSize - containerSize
  IN  With(rectStart + (IF isHori THEN c.scrollX ELSE c.scrollY), LAMBDA offset :
      With(boundsOf(ob.enter, ob.leave, offset * VScale, targetSize * VScale,
                    containerSize * VScale, maxScroll * VScale), LAMBDA b :
        [S EXCEPT !.obs[o].offset = offset,
                  !.obs[o].offsetStart = b.offsetStart \div VScale,
                  !.obs[o].offsetEnd = b.offsetEnd \div VScale,
                  !.obs[o].distance = b.distance \div VScale]))

\* ScrollObserver.updateBounds(): the measurement, between the two seeks of
\* the linked object when there is one (lines 744-747 and 839-841).  The call
\* is recorded in the log.
ScrollObserver_updateBoundsMutNoRestore(S, o) ==
  With(Emit(S, o, "updateBounds", 0, S.obs[o].isInView), LAMBDA S0 :
    IF ~S0.obs[o].linked THEN measureBounds(S0, o)
    ELSE linkedSeek(measureBounds(linkedSeek(S0, o, 0, TRUE), o), o, 0, TRUE))

ScrollObserver_updateBounds(S, o) ==
  With(Emit(S, o, "updateBounds", 0, S.obs[o].isInView), LAMBDA S0 :
    IF ~S0.obs[o].linked THEN measureBounds(S0, o)
    ELSE With(S0.obs[o].linkedTime, LAMBDA linkedTime :
           linkedSeek(measureBounds(linkedSeek(S0, o, 0, TRUE), o), o, linkedTime, TRUE)))

\* ScrollObserver.refresh()
ScrollObserver_refresh(S, o) ==
  LET pr == S.obs[o].params
      S1 == [S EXCEPT !.obs[o].reverted = FALSE,
                      !.obs[o].repeat = (setValue(pr.repeat, "true") = "true"),
                      !.obs[o].horizontal = (setValue(pr.axis, "y") = "x"),
                      !.obs[o].enter = IF pr.enter = <<>> THEN DefaultEnter ELSE pr.enter,
                      !.obs[o].leave = IF pr.leave = <<>> THEN DefaultLeave ELSE pr.leave]
  IN  ScrollObserver_handleScroll(ScrollObserver_updateBounds(S1, o), o)

\* forEachChildren(parent, callback, reverse) with callback = child.handleScroll():
\* the link to follow is read before the callback runs
RECURSIVE forEachChildren(_, _, _)
forEachChildren(S, n, reverse) ==
  IF n = Null THEN S
  ELSE LET currentNext == IF reverse THEN S.obs[n].prev ELSE S.obs[n].next
       IN  forEachChildren(ScrollObserver_handleScroll(S, n), currentNext, reverse)

\* new ScrollContainer($el), lines 89-188
newScrollContainer(S, t) ==
  LET S1 == [S EXCEPT !.trk[t] = [NoTracker EXCEPT !.made = TRUE]]
      S2 == ScrollContainer_updateBounds(updateScrollCoords(S1, t), t)
      S3 == ScrollContainer_handleScroll(S2, t)
  IN  [S3 EXCEPT !.trk[t].resizeObserver = TRUE, !.trk[t].listener = TRUE]

\* The tracker id the next `new ScrollContainer` gets
FreshTrk(T) == IF \E t \in TrkIds : ~T[t].made
                 THEN CHOOSE t \in TrkIds : ~T[t].made /\ \A u \in 1..(t - 1) : T[u].made
                 ELSE Null

\* registerAndGetScrollContainer(target): the state after it, with the
\* tracker it returns left in reg
registerAndGetScrollContainer(S) ==
  IF S.reg # Null THEN S
  ELSE [newScrollContainer(S, FreshTrk(S.trk)) EXCEPT !.reg = FreshTrk(S.trk)]

\* new ScrollObserver(parameters), lines 416-534
newScrollObserver(S, o, pr) ==
  With(registerAndGetScrollContainer(S), LAMBDA S1 :
    addChild([S1 EXCEPT !.obs[o] = [NoObserver EXCEPT !.made = TRUE, !.params = pr,
                                      !.container = S1.reg,
                                      !.sync = (pr.sync # "false"),
                                      !.syncEase = (pr.sync \in {"ease", "linear"}),
                                      !.syncSmooth = IF pr.sync = "linear" THEN SmoothUnit
                                                     ELSE IF pr.sync = "smooth" THEN SmoothK
                                                     ELSE 0,
                                      !.syncMethods = IF pr.sync = "undef" THEN 2
                                                      ELSE IF pr.sync = "one" THEN 1
                                                      ELSE IF pr.sync = "four" THEN 4
                                                      ELSE 0,
                                      !.pendingSync = TRUE]],
             S1.reg, o))

\* ---------------------------------------------------------------- actions
\* What a handler leaves in hist
Did(act, arg, S, pre, rev) ==
  [act |-> act, arg |-> arg, ev |-> S.ev, pre |-> pre, rev |-> rev]

\* The user's enter and leave callbacks
EnterLeave == {"onEnter", "onEnterForward", "onEnterBackward",
               "onLeave", "onLeaveForward", "onLeaveBackward"}

\* The tally after the calls ev[i..]
RECURSIVE TallyAfter(_, _, _)
TallyAfter(ty, ev, i) ==
  IF i > Len(ev) THEN ty
  ELSE LET e == ev[i]
           t1 == IF e.o = 1 /\ e.cb = "handleScroll"
                   THEN [ty EXCEPT !.n = IF @ < MaxCount THEN @ + 1 ELSE @,
                                   !.first = IF ty.n = 0 THEN e.sc ELSE @,
                                   !.last = e.sc,
                                   !.mono = @ /\ (ty.n = 0 \/ ty.last <= e.sc),
                                   !.inside = @ \/ (0 < e.p /\ e.p < PScale)]
                 ELSE IF e.o = 1 /\ e.cb \in EnterLeave /\ Len(ty.log) < 2 * MaxCount
                   THEN [ty EXCEPT !.log = Append(@, e.cb)]
                 ELSE ty
       IN  TallyAfter(t1, ev, i + 1)

\* The tally after the calls ev[i..], when only the enters and leaves of
\* observer 1 are followed: left (onLeave was called), entered (onEnter was
\* called), open (onEnter was called, and onLeave has not been called since)
RECURSIVE SeenAfter(_, _, _)
SeenAfter(ty, ev, i) ==
  IF i > Len(ev) THEN ty
  ELSE SeenAfter(IF ev[i].o = 1 /\ ev[i].cb = "onEnter"
                   THEN [ty EXCEPT !.entered = TRUE, !.open = TRUE]
                 ELSE IF ev[i].o = 1 /\ ev[i].cb = "onLeave"
                   THEN [ty EXCEPT !.left = TRUE, !.open = FALSE]
                 ELSE ty, ev, i + 1)

NoTally == [on |-> FALSE, n |-> 0, first |-> 0, last |-> 0, mono |-> TRUE,
            inside |-> FALSE, log |-> <<>>, seen |-> FALSE, left |-> FALSE,
            entered |-> FALSE, open |-> FALSE, timed |-> FALSE, frames |-> 0]

\* The least number of frames scrollTicker runs in one wake window (the window
\* lasts 500 ms, line 167, a frame a few milliseconds)
WakeFrames == 2

\* The frames that ran in the current wake window: none once a handler
\* restarted the window, one more after a frame that left it alone
FramesAfter(ty, S, act) ==
  [ty EXCEPT !.frames = IF \E t \in TrkIds : S.trk[t].wakeTicker = "armed" THEN 0
                        ELSE IF act = "Tick" /\ @ < WakeFrames THEN @ + 1
                        ELSE @]

NoProbe == [fn |-> "", args |-> <<>>, out |-> <<>>]

Commit(S, act, arg, pre, rev) ==
  /\ obs' = S.obs
  /\ trk' = S.trk
  /\ registry' = S.reg
  /\ dom' = S.dom
  /\ hist' = Did(act, arg, S, pre, rev)
  /\ tally' = IF tally.on THEN TallyAfter(tally, S.ev, 1)
             ELSE IF tally.seen THEN SeenAfter(tally, S.ev, 1)
             ELSE IF tally.timed THEN FramesAfter(tally, S, act)
             ELSE tally
  /\ probe' = probe

\* The id the next `new ScrollObserver` gets (scrollerIndex++)
FreshObs == IF \E o \in ObsIds : ~obs[o].made
              THEN CHOOSE o \in ObsIds : ~obs[o].made /\ \A u \in 1..(o - 1) : obs[u].made
              ELSE Null

\* User code: new ScrollObserver(pr)
Create(pr) ==
  /\ FreshObs # Null
  /\ registry # Null \/ FreshTrk(trk) # Null
  /\ pr.onEnter # FreshObs
  /\ Commit(newScrollObserver(State, FreshObs, pr), "Create", FreshObs, <<>>, FALSE)

\* The callback the constructor handed to sync(), lines 525-533
DeferredSync(o) ==
  /\ obs[o].made /\ obs[o].pendingSync
  /\ LET S0 == [State EXCEPT !.obs[o].pendingSync = FALSE]
     IN  Commit(IF S0.obs[o].reverted THEN S0
                ELSE IF ~S0.obs[o].target
                  THEN ScrollObserver_refresh([S0 EXCEPT !.obs[o].target = TRUE], o)
                ELSE S0,
                "DeferredSync", o, <<>>, FALSE)

\* User code: observer.revert()
Revert(o) ==
  /\ obs[o].made
  /\ Commit([ScrollObserver_revert(State, o) EXCEPT !.obs[o].gRev = TRUE],
            "Revert", o, Members(obs, trk, obs[o].container), FALSE)

\* User code: observer.refresh()
Refresh(o) ==
  /\ obs[o].made
  /\ Commit(ScrollObserver_refresh(State, o), "Refresh", o, <<>>, FALSE)

\* User code: observer.link(linked), lines 539-563, with a linked object
\* whose currentTime is time; hist.pre keeps that time
Link(o, time) ==
  /\ obs[o].made /\ ~obs[o].linked
  /\ LET S0 == [State EXCEPT !.obs[o].linked = TRUE, !.obs[o].linkedTime = time]
     IN  Commit(IF ~S0.obs[o].params.target
                  THEN ScrollObserver_refresh([S0 EXCEPT !.obs[o].target = TRUE], o)
                  ELSE S0,
                "Link", o, <<time>>, FALSE)

\* The scroll listeners of the surface: every tracker still listening runs
\* ScrollContainer.handleEvent
RECURSIVE Listeners(_, _)
Listeners(S, t) ==
  IF t > MaxTrk THEN S
  ELSE Listeners(IF S.trk[t].made /\ S.trk[t].listener
                   THEN ScrollContainer_handleScroll(S, t) ELSE S, t + 1)

\* The host: the surface is scrolled to y and the scroll event is delivered
ScrollTo(y) ==
  /\ y # dom.scrollY
  /\ Commit(Listeners([State EXCEPT !.dom.scrollY = y], 1), "ScrollTo", y, <<>>, FALSE)

\* The linked object of observer o plays or is sought by user code: its
\* currentTime becomes time
LinkedPlay(o, time) ==
  /\ obs[o].made /\ obs[o].linked /\ time # obs[o].linkedTime
  /\ Commit([State EXCEPT !.obs[o].linkedTime = time], "LinkedPlay", o, <<>>, FALSE)

\* The linked object of observer o reports completed, or stops reporting it
LinkedFinish(o, completed) ==
  /\ obs[o].made /\ obs[o].linked /\ completed # obs[o].linkedCompleted
  /\ Commit([State EXCEPT !.obs[o].linkedCompleted = completed],
            "LinkedFinish", o, <<>>, FALSE)

\* The host: the surface is scrolled sideways to x
ScrollToX(x) ==
  /\ x # dom.scrollX
  /\ Commit(Listeners([State EXCEPT !.dom.scrollX = x], 1), "ScrollToX", x, <<>>, FALSE)

\* wakeTicker's first frame: onBegin resumes scrollTicker, lines 169-171
WakeBegin(t) ==
  /\ trk[t].made /\ trk[t].wakeTicker = "armed"
  /\ Commit([State EXCEPT !.trk[t].wakeTicker = "open",
                          !.trk[t].scrollTicker = IF @ = "paused" THEN "running" ELSE @],
            "WakeBegin", t, <<>>, FALSE)

\* wakeTicker's duration elapsed: onComplete pauses scrollTicker, lines 172-174
WakeElapse(t) ==
  /\ trk[t].made /\ trk[t].wakeTicker = "open"
  /\ Commit([State EXCEPT !.trk[t].wakeTicker = "paused",
                          !.trk[t].scrollTicker = IF @ = "running" THEN "paused" ELSE @],
            "WakeElapse", t, <<>>, FALSE)

\* A frame of scrollTicker, lines 127-135: onBegin on its first frame, then
\* onUpdate walks the observers
Tick(t) ==
  /\ trk[t].made /\ trk[t].scrollTicker = "running"
  /\ LET backwards == trk[t].backwardX \/ trk[t].backwardY
         S0 == IF trk[t].began THEN State
               ELSE [State EXCEPT !.trk[t].began = TRUE,
                                  !.trk[t].dataTimer = IF @ = "paused" THEN "running" ELSE @]
     IN  Commit(forEachChildren(S0, IF backwards THEN trk[t].tail ELSE trk[t].head, backwards),
                "Tick", t, Members(obs, trk, t), backwards)

\* A frame of dataTimer, lines 140-153
DataSample(t) ==
  /\ trk[t].made /\ trk[t].dataTimer = "running"
  /\ LET px == trk[t].prevScrollX
         py == trk[t].prevScrollY
         nx == trk[t].scrollX
         ny == trk[t].scrollY
     IN  Commit([State EXCEPT !.trk[t].prevScrollX = nx,
                              !.trk[t].prevScrollY = ny,
                              !.trk[t].backwardX = IF px - nx # 0 THEN px > nx ELSE @,
                              !.trk[t].backwardY = IF py - ny # 0 THEN py > ny ELSE @],
                "DataSample", t, <<>>, FALSE)

\* forEachChildren(parent, callback) with callback = child.refresh(), lines
\* 230-235 (no observer of this model has _debug)
RECURSIVE forEachRefresh(_, _)
forEachRefresh(S, n) ==
  IF n = Null THEN S
  ELSE With(S.obs[n].next, LAMBDA currentNext :
         forEachRefresh(ScrollObserver_refresh(S, n), currentNext))

\* ScrollContainer.refreshScrollObservers()
refreshScrollObserversMutNoBounds(S, t) == forEachRefresh(S, S.trk[t].head)

refreshScrollObservers(S, t) ==
  With(ScrollContainer_updateBounds(S, t), LAMBDA S1 : forEachRefresh(S1, S1.trk[t].head))

\* The ResizeObserver callback, line 185: resizeTicker.restart()
resizeCallbackMutNow(S, t) ==
  ScrollContainer_handleScroll(refreshScrollObservers(S, t), t)

resizeCallback(S, t) == [S EXCEPT !.trk[t].resizeTicker = "armed"]

\* The ResizeObservers of the surface: every tracker still observing gets its
\* callback run
RECURSIVE ResizeObservers(_, _)
ResizeObservers(S, t) ==
  IF t > MaxTrk THEN S
  ELSE ResizeObservers(IF S.trk[t].made /\ S.trk[t].resizeObserver
                         THEN resizeCallback(S, t) ELSE S, t + 1)

\* The host: the visible square of the surface gets the side v and the resize
\* signal is delivered
Resize(v) ==
  /\ v # dom.view
  /\ Commit(ResizeObservers([State EXCEPT !.dom.view = v], 1), "Resize", v, <<>>, FALSE)

\* resizeTicker's duration elapsed since its last restart: onComplete, lines
\* 159-163 (updateWindowBounds only reads the window's size)
ResizeElapse(t) ==
  /\ trk[t].made /\ trk[t].resizeTicker = "armed"
  /\ Commit(With(ScrollContainer_handleScroll(refreshScrollObservers(State, t), t), LAMBDA S1 :
                 [S1 EXCEPT !.trk[t].resizeTicker = IF @ = "armed" THEN "paused" ELSE @]),
            "ResizeElapse", t, Members(obs, trk, t), FALSE)

\* User code: observer.container.refresh(), lines 238-243 (updateWindowBounds
\* only reads the window's size)
TrackerRefresh(t) ==
  /\ trk[t].made
  /\ Commit(ScrollContainer_handleScroll(
              refreshScrollObservers(ScrollContainer_updateBounds(State, t), t), t),
            "TrackerRefresh", t, Members(obs, trk, t), FALSE)

\* ------------------------------------------------------------ specification
\* The scroll offsets the host stops at in Spec: before the watched interval,
\* inside it and at the far end of the scroll range
Stops == {0, TargetOffset, MaxScroll}

\* The observers user code builds in Spec, all with default thresholds on the
\* y axis: the first repeats, and its onEnter observes or reverts another
\* observer; the later ones only observe, with repeat left out or false
SpecParams ==
  {pr \in Params : /\ pr.repeat \in {"undef", "false"}
                   /\ pr.sync = "undef"
                   /\ pr.enter = <<>> /\ pr.leave = <<>>
                   /\ pr.axis = "undef"
                   /\ pr.target
                   /\ (FreshObs = 1 => pr.repeat = "undef")
                   /\ (FreshObs # 1 => pr.onEnter = Null)}

\* Some tracker has its scroll listener on the surface
Listening == \E t \in TrkIds : trk[t].made /\ trk[t].listener

NoHist == [act |-> "Init", arg |-> 0, ev |-> <<>>, pre |-> <<>>, rev |-> FALSE]

Init ==
  /\ obs = [o \in ObsIds |-> NoObserver]
  /\ trk = [t \in TrkIds |-> NoTracker]
  /\ registry = Null
  /\ dom = [scrollX |-> 0, scrollY |-> 0, view |-> ViewSize]
  /\ hist = NoHist
  /\ tally = NoTally
  /\ probe = NoProbe

\* Several observers on one surface: construction, the user's revert() and
\* refresh() of the first observer, scrolling between the stops while a
\* tracker listens, the wake window and the frames of scrollTicker
Next ==
  \/ \E pr \in SpecParams : FreshObs < MaxObs /\ Create(pr)
  \/ \E o \in ObsIds : DeferredSync(o)
  \/ Revert(1)
  \/ Refresh(1)
  \/ \E y \in Stops : Listening /\ ScrollTo(y)
  \/ \E t \in TrkIds : WakeBegin(t)
  \/ \E t \in TrkIds : WakeElapse(t)
  \/ \E t \in TrkIds : Tick(t)

Spec == Init /\ [][Next]_vars

\* The observers user code builds in SpecOne: every repeat value, default or
\* inverted thresholds, sync left out or false
OneParams ==
  {pr \in Params : /\ pr.enter \in {<<>>, DefaultLeave}
                   /\ pr.leave = (IF pr.enter = <<>> THEN <<>> ELSE DefaultEnter)
                   /\ pr.axis = "undef"
                   /\ pr.target
                   /\ pr.onEnter = Null}

\* One observer on the surface, scrolled to every offset in both directions,
\* with the sampler of the direction flags
NextOne ==
  \/ \E pr \in OneParams : FreshObs = 1 /\ Create(pr)
  \/ DeferredSync(1)
  \/ Refresh(1)
  \/ \E y \in 0..MaxScroll : ScrollTo(y)
  \/ \E t \in TrkIds : WakeBegin(t)
  \/ \E t \in TrkIds : WakeElapse(t)
  \/ \E t \in TrkIds : Tick(t)
  \/ \E t \in TrkIds : DataSample(t)

InitOne ==
  /\ obs = [o \in ObsIds |-> NoObserver]
  /\ trk = [t \in TrkIds |-> NoTracker]
  /\ registry = Null
  /\ dom = [scrollX |-> 0, scrollY |-> 0, view |-> ViewSize]
  /\ hist = NoHist
  /\ tally = [NoTally EXCEPT !.seen = TRUE]
  /\ probe = NoProbe

SpecOne == InitOne /\ [][NextOne]_vars

\* The observers user code builds in SpecOrder: the first one's onEnter may
\* revert one of the others, every other parameter is left out
OrderParams ==
  {pr \in Params : /\ pr.repeat = "undef"
                   /\ pr.sync = "undef"
                   /\ pr.enter = <<>> /\ pr.leave = <<>>
                   /\ pr.axis = "undef"
                   /\ pr.target
                   /\ (FreshObs # 1 => pr.onEnter = Null)}

\* MaxObs observers on one surface, left to the frames: construction, the
\* deferred refresh, scrolling between the stops, the wake window, the frames
\* of scrollTicker and of dataTimer
NextOrder ==
  \/ \E pr \in OrderParams : Create(pr)
  \/ \E o \in ObsIds : DeferredSync(o)
  \/ \E y \in Stops : Listening /\ ScrollTo(y)
  \/ \E t \in TrkIds : WakeBegin(t)
  \/ \E t \in TrkIds : Tick(t)
  \/ \E t \in TrkIds : DataSample(t)

SpecOrder == Init /\ [][NextOrder]_vars

\* The observer user code builds in SpecSweep: every parameter left out
SweepParams == {NoParams}

InitSweep ==
  /\ obs = [o \in ObsIds |-> NoObserver]
  /\ trk = [t \in TrkIds |-> NoTracker]
  /\ registry = Null
  /\ dom \in [scrollX : {0}, scrollY : 0..MaxScroll, view : {ViewSize}]
  /\ hist = NoHist
  /\ tally = [NoTally EXCEPT !.on = TRUE]
  /\ probe = NoProbe

\* One observer with default parameters on a surface that is only ever
\* scrolled forward, from any first offset
NextSweep ==
  \/ \E pr \in SweepParams : FreshObs = 1 /\ Create(pr)
  \/ DeferredSync(1)
  \/ \E y \in 0..MaxScroll : y > dom.scrollY /\ ScrollTo(y)
  \/ \E t \in TrkIds : WakeBegin(t)
  \/ \E t \in TrkIds : WakeElapse(t)
  \/ \E t \in TrkIds : Tick(t)
  \/ \E t \in TrkIds : DataSample(t)

SpecSweep == InitSweep /\ [][NextSweep]_vars

\* The frame loop drives the wake timer: a restarted window begins on the next
\* frame, and an open window elapses unless it is restarted
SpecWake ==
  /\ Init /\ [][Next]_vars
  /\ WF_vars(\E t \in TrkIds : WakeBegin(t))
  /\ WF_vars(\E t \in TrkIds : WakeElapse(t))

\* The observers user code builds in SpecResize: every parameter left out but
\* the first one's onEnter, which may revert another observer
ResizeParams ==
  {pr \in Params : /\ pr.repeat = "undef"
                   /\ pr.sync = "undef"
                   /\ pr.enter = <<>> /\ pr.leave = <<>>
                   /\ pr.axis = "undef"
                   /\ pr.target
                   /\ (FreshObs # 1 => pr.onEnter = Null)}

\* The sides the visible square of the surface can take
Views == ViewSize..(ViewSize + MaxGrow)

\* Observers on a surface that is resized and scrolled: construction, the
\* deferred refresh, resize signals and the end of the debounce window,
\* scrolling between the stops, the begin of the wake window and the frames
\* of scrollTicker
NextResize ==
  \/ \E pr \in ResizeParams : FreshObs < MaxObs /\ Create(pr)
  \/ \E o \in ObsIds : DeferredSync(o)
  \/ \E v \in Views : Listening /\ Resize(v)
  \/ \E t \in TrkIds : ResizeElapse(t)
  \/ \E y \in Stops : Listening /\ ScrollTo(y)
  \/ \E t \in TrkIds : WakeBegin(t)
  \/ \E t \in TrkIds : Tick(t)

\* Some tracker's debounce window is running: ResizeElapse is enabled
ResizeDue == \E t \in TrkIds : trk[t].made /\ trk[t].resizeTicker = "armed"

\* The debounce timer runs: weak fairness of ResizeElapse, with ENABLED
\* written out as its guard ResizeDue
SpecResize ==
  /\ Init /\ [][NextResize]_vars
  /\ ([]<>(~ResizeDue) \/ []<><<\E t \in TrkIds : ResizeElapse(t)>>_vars)

\* The observers user code builds in SpecLink: every parameter left out, or
\* only the target given
LinkParams ==
  {pr \in Params : /\ pr.repeat = "undef"
                   /\ pr.sync = "undef"
                   /\ pr.enter = <<>> /\ pr.leave = <<>>
                   /\ pr.axis = "undef"
                   /\ pr.onEnter = Null}

\* The times the linked object's cursor can be at
Times == {time * PScale : time \in 0..MaxTime}

\* One observer that user code links to an animation of its target, on a
\* surface that is resized and scrolled: construction, the deferred refresh,
\* link(), the linked object's playback, the user's refresh() of the observer
\* and of the tracker, resize signals and the end of the debounce window,
\* scrolling between the stops, the begin of the wake window and the frames
\* of scrollTicker
NextLink ==
  \/ \E pr \in LinkParams : FreshObs = 1 /\ Create(pr)
  \/ DeferredSync(1)
  \/ \E time \in Times : Link(1, time)
  \/ \E time \in Times : LinkedPlay(1, time)
  \/ Refresh(1)
  \/ \E t \in TrkIds : TrackerRefresh(t)
  \/ \E v \in Views : Listening /\ Resize(v)
  \/ \E t \in TrkIds : ResizeElapse(t)
  \/ \E y \in Stops : Listening /\ ScrollTo(y)
  \/ \E t \in TrkIds : WakeBegin(t)
  \/ \E t \in TrkIds : Tick(t)

SpecLink == Init /\ [][NextLink]_vars

\* The handlers of SpecLink, with the enter and leave calls of observer 1
\* followed from the start
SpecTurns == InitOne /\ [][NextLink]_vars

\* The observers user code builds in SpecDir: on the y or the x axis, with
\* sync left out or false, entering once the target's start is TargetOffset
\* pixels from the surface's start (enter: '<TargetOffset> start')
DirEnter == <<Plain(Num(TargetOffset)), Plain(Kw("start"))>>

DirParams ==
  {[NoParams EXCEPT !.axis = axis, !.sync = sync, !.enter = DirEnter] :
     axis \in {"undef", "x"}, sync \in {"undef", "false"}}

\* One observer on a surface scrolled along both axes: construction, the
\* deferred refresh, scrolling to every offset of the x axis and between the
\* stops of the y axis, the wake window, the frames of scrollTicker and the
\* sampler of the direction flags
NextDir ==
  \/ \E pr \in DirParams : FreshObs = 1 /\ Create(pr)
  \/ DeferredSync(1)
  \/ \E y \in Stops : ScrollTo(y)
  \/ \E x \in 0..MaxScrollX : ScrollToX(x)
  \/ \E t \in TrkIds : WakeBegin(t)
  \/ \E t \in TrkIds : WakeElapse(t)
  \/ \E t \in TrkIds : Tick(t)
  \/ \E t \in TrkIds : DataSample(t)

SpecDir == Init /\ [][NextDir]_vars

\* The observers user code builds in SpecSync: every sync mode but the
\* smoothing number below 1, repeat left out or false
SyncParams ==
  {[NoParams EXCEPT !.sync = sync, !.repeat = repeat] :
     sync \in SyncModes \ {"smooth"}, repeat \in {"undef", "false"}}

\* The scroll offsets the host stops at in SpecSync: the stops of Spec and
\* the end bound of an observer with default thresholds
SyncStops == Stops \cup {TargetOffset + TargetSize}

\* One observer that user code may link to an object it then seeks through
\* the sync mode: construction, link() before the deferred refresh or after
\* it, the linked object's own playback and completion, scrolling between the
\* stops, the begin of the wake window, the frames of scrollTicker and the
\* sampler of the direction flags
NextSync ==
  \/ \E pr \in SyncParams : FreshObs = 1 /\ Create(pr)
  \/ DeferredSync(1)
  \/ Link(1, 0)
  \/ \E time \in Times : LinkedPlay(1, time)
  \/ \E completed \in BOOLEAN : LinkedFinish(1, completed)
  \/ \E y \in SyncStops : ScrollTo(y)
  \/ \E t \in TrkIds : WakeBegin(t)
  \/ \E t \in TrkIds : Tick(t)
  \/ \E t \in TrkIds : DataSample(t)

SpecSync == Init /\ [][NextSync]_vars

\* The observers user code builds in SpecSmooth: sync given as a smoothing
\* number below 1, or as 'linear'
SmoothParams == {[NoParams EXCEPT !.sync = sync] : sync \in {"smooth", "linear"}}

\* No wake window is armed or open: the scroll input has stopped and every
\* frame loop has come to rest
Quiet == \A t \in TrkIds : trk[t].made => trk[t].wakeTicker = "paused"

InitSmooth ==
  /\ obs = [o \in ObsIds |-> NoObserver]
  /\ trk = [t \in TrkIds |-> NoTracker]
  /\ registry = Null
  /\ dom = [scrollX |-> 0, scrollY |-> 0, view |-> ViewSize]
  /\ hist = NoHist
  /\ tally = [NoTally EXCEPT !.timed = TRUE]
  /\ probe = NoProbe

\* One observer, linked to an object at rest at 0; the user scrolls between
\* the stops while the frame loop is at rest, and a wake window elapses only
\* after WakeFrames frames left it alone
NextSmooth ==
  \/ \E pr \in SmoothParams : FreshObs = 1 /\ Create(pr)
  \/ DeferredSync(1)
  \/ Link(1, 0)
  \/ \E y \in Stops : Quiet /\ ScrollTo(y)
  \/ \E t \in TrkIds : WakeBegin(t)
  \/ \E t \in TrkIds : tally.frames >= WakeFrames /\ WakeElapse(t)
  \/ \E t \in TrkIds : Tick(t)

\* A frame loop that runs is due a frame
TickDue == \E t \in TrkIds : trk[t].made /\ trk[t].scrollTicker = "running"

\* The frame loop drives the wake timer and scrollTicker: a restarted window
\* begins, a running scrollTicker gets its frames, and a window that
\* WakeFrames frames left alone elapses
SpecSmooth ==
  /\ InitSmooth /\ [][NextSmooth]_vars
  /\ WF_vars(\E t \in TrkIds : WakeBegin(t))
  /\ WF_vars(\E t \in TrkIds : tally.frames >= WakeFrames /\ WakeElapse(t))
  /\ ([]<>(~TickDue) \/ []<><<\E t \in TrkIds : Tick(t)>>_vars)

\* The observers user code builds in SpecAttach: every parameter left out
AttachParams == {NoParams}

\* The frame loop of observer o's tracker runs
Ticking(o) == obs[o].made /\ trk[obs[o].container].scrollTicker = "running"

\* Two observers on one surface: the second is constructed while the tracker
\* of the first is ticking, and frames, scroll signals and the deferred first
\* refreshes interleave freely
NextAttach ==
  \/ \E pr \in AttachParams : FreshObs = 1 /\ Create(pr)
  \/ \E pr \in AttachParams : FreshObs = 2 /\ Ticking(1) /\ Create(pr)
  \/ \E o \in ObsIds : DeferredSync(o)
  \/ \E y \in 0..MaxScroll : ScrollTo(y)
  \/ \E t \in TrkIds : WakeBegin(t)
  \/ \E t \in TrkIds : WakeElapse(t)
  \/ \E t \in TrkIds : Tick(t)

SpecAttach == Init /\ [][NextAttach]_vars

\* The scroll offsets, starts and distances get progress() is applied to
ProbeScrolls == (0 - 1)..(MaxScroll + 1)
ProbeStarts == (0 - 2)..MaxScroll
ProbeDistances == 0..(MaxScroll + 2)

InitProgress ==
  /\ obs = [o \in ObsIds |-> NoObserver]
  /\ trk = [t \in TrkIds |-> NoTracker]
  /\ registry = Null
  /\ dom = [scrollX |-> 0, scrollY |-> 0, view |-> ViewSize]
  /\ hist = NoHist
  /\ tally = NoTally
  /\ probe \in [fn : {"progress"},
                args : ProbeScrolls \X ProbeScrolls \X ProbeStarts \X ProbeDistances,
                out : {<<>>}]

\* get progress() read at two scroll offsets against the same cached bounds
ApplyProgress ==
  /\ probe.fn = "progress" /\ probe.out = <<>>
  /\ probe' = [probe EXCEPT !.out = <<progress(probe.args[1], probe.args[3], probe.args[4]),
                                      progress(probe.args[2], probe.args[3], probe.args[4])>>]
  /\ UNCHANGED <<obs, trk, registry, dom, hist, tally>>

NextProgress == ApplyProgress

SpecProgress == InitProgress /\ [][NextProgress]_vars

\* The geometry updateBounds is applied to in SpecBounds, in hundredths of a
\* pixel: the sizes of the model's surface, the same with a fraction of a
\* pixel more, and the sizes of the specification's example
BoundsContainerSizes == {ViewSize * VScale, ViewSize * VScale + 50, 1000 * VScale}
BoundsTargetSizes == {TargetSize * VScale, TargetSize * VScale + 40, 200 * VScale}
BoundsOffsets == {TargetOffset * VScale, TargetOffset * VScale + 25, 800 * VScale}
BoundsMaxScrolls == {MaxScroll * VScale, 2000 * VScale}
\* The cached scroll offsets (whole pixels, line 194) progress is read at
BoundsScrolls == (0..MaxScroll) \cup {400, 1000, 1200}

InitBounds ==
  /\ obs = [o \in ObsIds |-> NoObserver]
  /\ trk = [t \in TrkIds |-> NoTracker]
  /\ registry = Null
  /\ dom = [scrollX |-> 0, scrollY |-> 0, view |-> ViewSize]
  /\ hist = NoHist
  /\ tally = NoTally
  /\ probe \in [fn : {"bounds"},
                args : BoundsContainerSizes \X BoundsTargetSizes \X BoundsOffsets
                         \X BoundsMaxScrolls \X BoundsScrolls,
                out : {<<>>}]

\* refresh() with enter and leave left out (lines 587-588), as far as it
\* computes the bounds, and get progress() read against them
ApplyBounds ==
  /\ probe.fn = "bounds" /\ probe.out = <<>>
  /\ probe' = [probe EXCEPT !.out =
                 With(boundsOf(DefaultEnter, DefaultLeave, probe.args[3], probe.args[2],
                               probe.args[1], probe.args[4]), LAMBDA b :
                   <<b.offsetStart, b.offsetEnd,
                     progress(probe.args[5] * VScale, b.offsetStart, b.distance)>>)]
  /\ UNCHANGED <<obs, trk, registry, dom, hist, tally>>

NextBounds == ApplyBounds

SpecBounds == InitBounds /\ [][NextBounds]_vars

\* The thresholds parseBoundValue is applied to in SpecResolve: an anchor, or
\* 'A<op>=B' with one of the three operators
ResolveAnchors == {Kw("start"), Kw("end"), Kw("center"), Kw("min"), Kw("max"),
                   Pct(50), Pct(25), Num(20)}
ResolveOperands == {Num(0), Num(2), Num(20), Px(3), Pct(50), Pct(25)}
ResolveValues ==
  {Plain(a) : a \in ResolveAnchors}
    \cup {Rel(a, op, b) : a \in ResolveAnchors, op \in {"+", "-", "*"}, b \in ResolveOperands}
\* The axis sizes, in hundredths of a pixel: an odd and an even number of
\* pixels, a fractional one, and the size of the specification's examples
ResolveSizes == {ViewSize * VScale, (ViewSize + 1) * VScale, ViewSize * VScale + 50,
                 200 * VScale}
\* The underflow and overflow adjustments, in hundredths of a pixel
ResolveUnders == {0 - 150, 0, 100}
ResolveOvers == {0 - 100, 0, 150}

InitResolve ==
  /\ obs = [o \in ObsIds |-> NoObserver]
  /\ trk = [t \in TrkIds |-> NoTracker]
  /\ registry = Null
  /\ dom = [scrollX |-> 0, scrollY |-> 0, view |-> ViewSize]
  /\ hist = NoHist
  /\ tally = NoTally
  /\ probe \in [fn : {"parseBoundValue"},
                args : ResolveValues \X ResolveSizes \X ResolveUnders \X ResolveOvers,
                out : {<<>>}]

\* parseBoundValue applied to a threshold, and to the plain 'min' and 'max'
\* with the same size and adjustments
ApplyResolve ==
  /\ probe.fn = "parseBoundValue" /\ probe.out = <<>>
  /\ probe' = [probe EXCEPT !.out =
                 <<parseBoundValue(probe.args[1], probe.args[2], probe.args[3], probe.args[4]),
                   parseBoundValue(Plain(Kw("min")), probe.args[2], probe.args[3], probe.args[4]),
                   parseBoundValue(Plain(Kw("max")), probe.args[2], probe.args[3], probe.args[4])>>]
  /\ UNCHANGED <<obs, trk, registry, dom, hist, tally>>

NextResolve == ApplyResolve

SpecResolve == InitResolve /\ [][NextResolve]_vars

\* ------------------------------------------------------------------ claims
\* How many calls of cb the last handler made on observer o
Calls(o, cb) == Len(SelectSeq(hist.ev, LAMBDA e : e.o = o /\ e.cb = cb))
\* Some evaluation of o by the last handler satisfies P
Evaluated(o, P(_)) ==
  \E i \in 1..Len(hist.ev) : hist.ev[i].o = o /\ hist.ev[i].cb = "handleScroll" /\ P(hist.ev[i])
\* The observer is in its tracker's list
Attached(o) == obs[o].made /\ InSeq(o, Members(obs, trk, obs[o].container))

\* The samples of observer 1 since Init swept forward from below its start
\* to above its end
SweepDone ==
  /\ tally.on /\ obs[1].made /\ obs[1].target
  /\ obs[1].offsetStart < obs[1].offsetEnd
  /\ tally.n > 0 /\ tally.mono
  /\ tally.first < obs[1].offsetStart
  /\ tally.last > obs[1].offsetEnd

OneEnterOneLeaveForward ==
  tally.log = <<"onEnter", "onEnterForward", "onLeave", "onLeaveForward">>

\* C1 as stated: every non-decreasing sequence of sampled offsets from below
\* start to above end calls onEnter once, then onLeave once, each followed by
\* its forward variant and by no backward variant
C1_Original == SweepDone => OneEnterOneLeaveForward

\* C1 amended: the same for every such sequence that samples at least one
\* offset strictly between start and end
C1_SweepThroughInterval == (SweepDone /\ tally.inside) => OneEnterOneLeaveForward

C1_Witness == SweepDone /\ tally.inside /\ OneEnterOneLeaveForward /\ hist.act = "Tick"

\* The observers C2 is about: repeat false, no linked object, default sync
RepeatFalse(o) ==
  obs[o].made /\ obs[o].params.repeat = "false" /\ ~obs[o].linked
  /\ obs[o].params.sync = "undef"

AtProgressOne(e) == e.p = PScale
LeavingAtProgressOne(e) == e.p = PScale /\ e.wasIn

TickOrScroll == hist.act \in {"Tick", "ScrollTo", "WakeBegin", "WakeElapse"}

\* C2 as stated: a frame that evaluates a repeat = false observer at progress
\* 1 detaches it, and no later frame or scroll signal calls it
C2_Original ==
  \A o \in ObsIds : RepeatFalse(o) =>
    /\ (hist.act = "Tick" /\ Evaluated(o, AtProgressOne))
         => (obs[o].reverted /\ ~Attached(o))
    /\ TickOrScroll => \A i \in 1..Len(hist.ev) : hist.ev[i].o = o => ~hist.ev[i].self

\* C2 amended: a frame that evaluates a repeat = false observer at progress 1
\* while it was in view at its previous evaluation (so that this frame calls
\* onLeave) detaches it, and no later frame or scroll signal calls it
C2_DetachOnLeaveAtOne ==
  \A o \in ObsIds : RepeatFalse(o) =>
    /\ (hist.act = "Tick" /\ Evaluated(o, LeavingAtProgressOne))
         => (obs[o].reverted /\ ~Attached(o))
    /\ TickOrScroll => \A i \in 1..Len(hist.ev) : hist.ev[i].o = o => ~hist.ev[i].self

C2_Witness ==
  \E o \in ObsIds : /\ RepeatFalse(o) /\ hist.act = "Tick"
                    /\ Evaluated(o, LeavingAtProgressOne)
                    /\ obs[o].gSelf /\ obs[o].reverted /\ ~Attached(o)
                    /\ \E u \in ObsIds : u # o /\ Attached(u)

\* The observers C3 is about: repeat true (given or by default)
RepeatTrue(o) == obs[o].made /\ obs[o].params.repeat \in {"undef", "true"}

InsideBounds(o, sc) == obs[o].offsetStart < sc /\ sc < obs[o].offsetEnd

\* C3: an observer with repeat = true never detaches itself, and once its
\* onLeave has been called, every evaluation that finds it inside the
\* interval again calls onEnter once and every evaluation that finds it
\* outside again calls onLeave once
C3_RepeatRefires ==
  RepeatTrue(1) =>
    /\ ~obs[1].gSelf /\ ~obs[1].reverted
    /\ \A i \in 1..Len(hist.ev) :
         LET e == hist.ev[i]
         IN  (e.o = 1 /\ e.cb = "handleScroll" /\ tally.left) =>
               /\ (~e.wasIn /\ InsideBounds(1, e.sc))
                    => (Calls(1, "onEnter") = 1 /\ Calls(1, "onLeave") = 0 /\ obs[1].isInView)
               /\ (e.wasIn /\ ~InsideBounds(1, e.sc))
                    => (Calls(1, "onLeave") = 1 /\ Calls(1, "onEnter") = 0 /\ ~obs[1].isInView)

C3_Witness ==
  /\ RepeatTrue(1) /\ hist.act = "Tick" /\ tally.left /\ obs[1].isInView
  /\ Calls(1, "onEnter") = 1 /\ obs[1].prevProgress < PScale /\ Attached(1)

\* C4: progress lies in [0, 1], and for fixed bounds it does not decrease
\* when the scroll offset grows
C4_ProgressBoundedMonotone ==
  (probe.fn = "progress" /\ probe.out # <<>>) =>
    /\ 0 <= probe.out[1] /\ probe.out[1] <= PScale
    /\ 0 <= probe.out[2] /\ probe.out[2] <= PScale
    /\ probe.args[1] <= probe.args[2] => probe.out[1] <= probe.out[2]

C4_Witness ==
  /\ probe.fn = "progress" /\ probe.out # <<>>
  /\ probe.args[1] < probe.args[2]
  /\ 0 < probe.out[1] /\ probe.out[1] < probe.out[2] /\ probe.out[2] < PScale

\* C5: an observer's distance is max(0, offsetEnd - offsetStart), never
\* negative, and with offsetEnd <= offsetStart its progress is 0 at every
\* scroll offset
C5_DistanceFloored ==
  \A o \in ObsIds : obs[o].made =>
    /\ obs[o].distance >= 0
    /\ obs[o].distance = (IF obs[o].offsetEnd - obs[o].offsetStart > 0
                            THEN obs[o].offsetEnd - obs[o].offsetStart ELSE 0)
    /\ obs[o].offsetEnd <= obs[o].offsetStart =>
         /\ \A sc \in ProbeScrolls : progress(sc, obs[o].offsetStart, obs[o].distance) = 0
         /\ hist.act = "Tick" => \A i \in 1..Len(hist.ev) : hist.ev[i].o = o => hist.ev[i].p = 0

C5_Witness ==
  /\ hist.act = "Tick" /\ obs[1].made /\ obs[1].target
  /\ obs[1].offsetEnd < obs[1].offsetStart /\ obs[1].distance = 0
  /\ Evaluated(1, LAMBDA e : e.sc > obs[1].offsetEnd /\ e.sc < obs[1].offsetStart)

\* The step is the handler act applied to o
StepOf(act, o) == hist' # hist /\ hist'.act = act /\ hist'.arg = o

\* The tracker t stops listening in this step
TornDown(t) == trk[t].listener /\ ~trk'[t].listener

\* C6: constructing an observer while no tracker is registered creates and
\* registers one tracker, constructing another one reuses it, and revert()
\* tears the tracker down exactly when the observer was its last attached one
C6_TrackerLifecycle ==
  [][\A o \in ObsIds :
       /\ StepOf("Create", o) =>
            IF registry = Null
              THEN /\ registry' # Null /\ ~trk[registry'].made /\ trk'[registry'].made
                   /\ obs'[o].container = registry'
              ELSE /\ registry' = registry /\ obs'[o].container = registry
                   /\ \A t \in TrkIds : trk'[t].made = trk[t].made
       /\ StepOf("Revert", o) =>
            (TornDown(obs[o].container) <=> Members(obs, trk, obs[o].container) = <<o>>)
    ]_vars

\* C7: revert() of an observer that is not in its tracker's list changes
\* neither the list, nor the tracker, nor the registry, nor another observer
C7_RevertDetachedNoOp ==
  [][\A o \in ObsIds :
       (StepOf("Revert", o) /\ ~InSeq(o, Members(obs, trk, obs[o].container))) =>
         /\ trk' = trk /\ registry' = registry
         /\ \A u \in ObsIds \ {o} : obs'[u] = obs[u]
    ]_vars

\* C8: refresh() of a reverted observer changes nothing of it and calls
\* nothing
C8_RefreshRevertedSkipped ==
  [][\A o \in ObsIds :
       (StepOf("Refresh", o) /\ obs[o].reverted) =>
         (obs'[o] = obs[o] /\ trk' = trk /\ hist'.ev = <<>>)
    ]_vars

\* C9: no handler evaluates handleScroll of an observer, or calls one of its
\* callbacks, after a revert() of that observer has returned
C9_NothingAfterRevert ==
  \A i \in 1..Len(hist.ev) : ~hist.ev[i].gone

\* The observers whose handleScroll the last handler evaluated, in order
Visited == [i \in 1..Len(SelectSeq(hist.ev, LAMBDA e : e.cb = "handleScroll"))
              |-> SelectSeq(hist.ev, LAMBDA e : e.cb = "handleScroll")[i].o]

Reverse(q) == [i \in 1..Len(q) |-> q[Len(q) + 1 - i]]

\* C10: a frame (here: one that runs after every deferred refresh) evaluates
\* handleScroll of each observer that was attached when the frame began
\* exactly once, in insertion order, or in reverse insertion order when the
\* tracker scrolls backward
C10_FrameVisitsEachOnce ==
  (hist.act = "Tick" /\ \A o \in ObsIds : ~obs[o].pendingSync)
    => Visited = (IF hist.rev THEN Reverse(hist.pre) ELSE hist.pre)

\* The handler of this step called revert() of no observer
NoDetach == \A o \in ObsIds : obs'[o].gRev = obs[o].gRev

\* The handler of this step ran refresh() of observer o against the surface's
\* present geometry (every observer of SpecResize has the default thresholds)
Refreshed(o) ==
  /\ \E i \in 1..Len(hist'.ev) : hist'.ev[i].o = o /\ hist'.ev[i].cb = "handleScroll"
  /\ obs'[o].offsetStart = TargetOffset - dom.view
  /\ obs'[o].offsetEnd = TargetOffset + TargetSize

Stepped(act, arg) == vars' # vars /\ hist'.act = act /\ hist'.arg = arg

\* The wake window of tracker t is open: restarted, and not yet elapsed
WakeOpen(t) == trk[t].wakeTicker \in {"armed", "open"}

\* The step restarts a wake window: a scroll signal reaches a tracker, or a
\* tracker is constructed
WakeRestart ==
  \/ \E y \in 0..MaxScroll : Stepped("ScrollTo", y)
  \/ \E o \in ObsIds : Stepped("Create", o) /\ registry = Null

\* C12: a scroll signal restarts the wake window of every listening tracker;
\* the begin of the window leaves the tick loop running; the tick loop runs,
\* and a frame evaluates observers, only while the wake window is open: it
\* starts running only at the begin of the window and stops only at its end
\* or at the tracker's teardown; and once no step restarts a wake window any
\* more, every tick loop is eventually paused for good
C12_WakeWindow ==
  /\ [](\A t \in TrkIds : trk[t].scrollTicker = "running" => WakeOpen(t))
  /\ [][/\ \A y \in 0..MaxScroll : Stepped("ScrollTo", y) =>
            \A t \in TrkIds : (trk[t].made /\ trk[t].listener) =>
              (trk'[t].wakeTicker = "armed" /\ trk'[t].scrollY = y)
        /\ \A t \in TrkIds :
            /\ Stepped("WakeBegin", t) =>
                 (trk[t].wakeTicker = "armed" /\ trk'[t].wakeTicker = "open"
                  /\ trk'[t].scrollTicker = "running")
            /\ Stepped("WakeElapse", t) =>
                 (trk[t].wakeTicker = "open" /\ trk'[t].wakeTicker = "paused"
                  /\ trk'[t].scrollTicker = "paused")
            /\ Stepped("Tick", t) => (WakeOpen(t) /\ trk[t].scrollTicker = "running")
            /\ (trk[t].scrollTicker # "running" /\ trk'[t].scrollTicker = "running")
                 => Stepped("WakeBegin", t)
            /\ (trk[t].scrollTicker = "running" /\ trk'[t].scrollTicker # "running")
                 => (Stepped("WakeElapse", t) \/ ~trk'[t].listener)
       ]_vars
  /\ (<>[][~WakeRestart]_vars)
       => <>[](\A t \in TrkIds : trk[t].scrollTicker # "running")

C12_Witness ==
  /\ hist.act = "WakeElapse" /\ trk[hist.arg].scrollTicker = "paused"
  /\ trk[hist.arg].wakeTicker = "paused" /\ trk[hist.arg].listener
  /\ trk[hist.arg].scrollY = TargetOffset
  /\ \E o \in ObsIds : Attached(o) /\ obs[o].isInView /\ obs[o].hasEntered

\* The last handler was a frame that evaluated observer o, which has
\* start < end, at the scroll offset sc
TickedAt(o, sc) ==
  /\ hist.act = "Tick" /\ obs[o].made /\ obs[o].offsetStart < obs[o].offsetEnd
  /\ \E i \in 1..Len(hist.ev) :
       hist.ev[i].o = o /\ hist.ev[i].cb = "handleScroll" /\ hist.ev[i].sc = sc

\* C13 as stated: after a frame evaluated an observer with start < end at the
\* offset sc, its isInView is true exactly when start <= sc <= end
C13_Original ==
  \A o \in ObsIds : \A sc \in 0..MaxScroll : TickedAt(o, sc) =>
    (obs[o].isInView <=> (obs[o].offsetStart <= sc /\ sc <= obs[o].offsetEnd))

\* C13 amended: after a frame evaluated an observer with start < end at the
\* offset sc, its isInView is true exactly when start < sc < end; the
\* evaluation counts as before exactly when sc <= start and as after exactly
\* when sc >= end, and in both cases isInView is false
C13_InViewStrictlyInside ==
  \A o \in ObsIds : \A sc \in 0..MaxScroll : TickedAt(o, sc) =>
    /\ obs[o].isInView <=> (obs[o].offsetStart < sc /\ sc < obs[o].offsetEnd)
    /\ isBeforeOf(sc, obs[o].offsetStart) <=> sc <= obs[o].offsetStart
    /\ isAfterOf(sc, obs[o].offsetEnd) <=> sc >= obs[o].offsetEnd
    /\ ~obs[o].isInView <=>
         (isBeforeOf(sc, obs[o].offsetStart) \/ isAfterOf(sc, obs[o].offsetEnd))

C13_Witness ==
  \E o \in ObsIds :
    /\ TickedAt(o, obs[o].offsetStart) /\ ~obs[o].isInView
    /\ obs[o].hasEntered /\ obs[o].forceEnter /\ Calls(o, "onEnter") = 1

\* The bounds of a geometry have been computed
BoundsDone == probe.fn = "bounds" /\ probe.out # <<>>

\* clamp((s - start) / distance, 0, 1) in millionths, for lengths in hundredths
ClampedRatio(s, start, distance) ==
  IF s <= start THEN 0
  ELSE IF s - start >= distance THEN PScale
  ELSE roundRatio(s - start, distance)

\* C14 as stated: with the default thresholds offsetStart is targetOffset -
\* containerSize, offsetEnd is targetOffset + targetSize and progress at
\* scroll s is clamp((s - offsetStart) / (containerSize + targetSize), 0, 1)
C14_Original ==
  BoundsDone =>
    /\ probe.out[1] = probe.args[3] - probe.args[1]
    /\ probe.out[2] = probe.args[3] + probe.args[2]
    /\ probe.out[3] = ClampedRatio(probe.args[5] * VScale, probe.out[1],
                                   probe.args[1] + probe.args[2])

\* C14 amended: with the default thresholds offsetStart is targetOffset -
\* round(containerSize), offsetEnd is targetOffset + round(targetSize) and
\* progress at scroll s is clamp((s - offsetStart) / (round(containerSize) +
\* round(targetSize)), 0, 1), to six decimals; for sizes of whole pixels these
\* are the stated values, and the example of the specification holds
C14_DefaultBoundsRounded ==
  BoundsDone =>
    /\ probe.out[1] = probe.args[3] - round0(probe.args[1]) * VScale
    /\ probe.out[2] = probe.args[3] + round0(probe.args[2]) * VScale
    /\ probe.out[3] = ClampedRatio(probe.args[5] * VScale, probe.out[1],
                                   (round0(probe.args[1]) + round0(probe.args[2])) * VScale)
    /\ (probe.args[1] % VScale = 0 /\ probe.args[2] % VScale = 0) =>
         /\ probe.out[1] = probe.args[3] - probe.args[1]
         /\ probe.out[2] = probe.args[3] + probe.args[2]
         /\ probe.out[3] = ClampedRatio(probe.args[5] * VScale, probe.out[1],
                                        probe.args[1] + probe.args[2])
    /\ (probe.args[1] = 1000 * VScale /\ probe.args[2] = 200 * VScale
        /\ probe.args[3] = 800 * VScale /\ probe.args[5] = 400) =>
         probe.out = <<(0 - 200) * VScale, 1000 * VScale, PScale \div 2>>

C14_Witness ==
  /\ BoundsDone
  /\ probe.args[1] = 1000 * VScale /\ probe.args[2] = 200 * VScale
  /\ probe.args[3] = 800 * VScale /\ probe.args[5] = 400
  /\ probe.out = <<(0 - 200) * VScale, 1000 * VScale, PScale \div 2>>

\* A threshold has been resolved
ResolveDone == probe.fn = "parseBoundValue" /\ probe.out # <<>>

\* The length an operand stands for on an axis of the given size, in
\* hundredths of a pixel: 'start' 0, 'end' the size, 'center' half of it, a
\* percentage of the size, or a number of pixels; 'min' and 'max' are the
\* start and the end moved by a positive overflow and a negative underflow
Resolved(a, size, under, over) ==
  IF a.t = "kw"
    THEN IF a.k = "start" THEN 0
         ELSE IF a.k = "end" THEN size
         ELSE IF a.k = "center" THEN size \div 2
         ELSE IF a.k = "min" THEN (IF over > 0 THEN over ELSE 0)
         ELSE size + (IF under < 0 THEN under ELSE 0)
  ELSE IF a.t = "pct" THEN (a.n * size) \div 100
  ELSE a.n * VScale

\* x op y on lengths in hundredths of a pixel
Combined(x, y, op) ==
  IF op = "+" THEN x + y ELSE IF op = "-" THEN x - y ELSE (x * y) \div VScale

\* The whole pixels nearest to a length in hundredths (halves go up)
Nearest(h) == (h + 50) \div VScale

\* The relative expressions of C15, as stated and amended
RelativeRounded ==
  LET v == probe.args[1]
  IN  (v.op # "" /\ ~IsKw(v.a, "min") /\ ~IsKw(v.a, "max")) =>
        probe.out[1] = Nearest(Combined(Resolved(v.a, probe.args[2], probe.args[3], probe.args[4]),
                                        Resolved(v.b, probe.args[2], probe.args[3], probe.args[4]),
                                        v.op))

\* C15 as stated: for every size 'start' resolves to 0, 'end' to the size and
\* 'center' to half the size, and 'A<op>=B' with A not min / max to
\* round(resolve(A) op resolve(B))
C15_Original ==
  ResolveDone =>
    /\ probe.args[1] = Plain(Kw("start")) => probe.out[1] = 0
    /\ probe.args[1] = Plain(Kw("end")) => probe.out[1] * VScale = probe.args[2]
    /\ probe.args[1] = Plain(Kw("center")) => 2 * probe.out[1] * VScale = probe.args[2]
    /\ RelativeRounded

\* C15 amended: for every size 'start' resolves to 0, 'end' to the size
\* rounded to whole pixels and 'center' to half the size rounded to whole
\* pixels (halves go up), which are the size and half the size when the size
\* is an even number of pixels; 'A<op>=B' with A not min / max resolves to
\* round(resolve(A) op resolve(B)) on the unrounded operands; at size 200
\* 'center' gives 100 and '50%+=20' gives 120
C15_AnchorsRounded ==
  ResolveDone =>
    /\ probe.args[1] = Plain(Kw("start")) => probe.out[1] = 0
    /\ probe.args[1] = Plain(Kw("end")) => probe.out[1] = Nearest(probe.args[2])
    /\ probe.args[1] = Plain(Kw("center")) => probe.out[1] = Nearest(probe.args[2] \div 2)
    /\ (probe.args[2] % (2 * VScale) = 0) =>
         /\ probe.args[1] = Plain(Kw("end")) => probe.out[1] * VScale = probe.args[2]
         /\ probe.args[1] = Plain(Kw("center")) => 2 * probe.out[1] * VScale = probe.args[2]
    /\ RelativeRounded
    /\ probe.args[2] = 200 * VScale =>
         /\ probe.args[1] = Plain(Kw("center")) => probe.out[1] = 100
         /\ probe.args[1] = Rel(Pct(50), "+", Num(20)) => probe.out[1] = 120

C15_Witness ==
  /\ ResolveDone /\ probe.args[2] = 200 * VScale
  /\ probe.args[1] = Rel(Pct(50), "+", Num(20)) /\ probe.out[1] = 120

\* The threshold resolved is 'k<op>=B' for the keyword k
ClampedCase(k, op) ==
  ResolveDone /\ probe.args[1].op = op /\ IsKw(probe.args[1].a, k)

\* The length b its second operand stands for (never negative in SpecResolve)
OperandB == Resolved(probe.args[1].b, probe.args[2], probe.args[3], probe.args[4])

Smaller(x, y) == IF x < y THEN x ELSE y
Larger(x, y) == IF x > y THEN x ELSE y

\* C16 as stated: 'max-=b' resolves to at most size - b and at most the
\* resolved plain 'max'; 'min+=b' resolves to at least b and at least the
\* resolved plain 'min'
C16_Original ==
  /\ ClampedCase("max", "-") =>
       (probe.out[1] * VScale <= probe.args[2] - OperandB /\ probe.out[1] <= probe.out[3])
  /\ ClampedCase("min", "+") =>
       (probe.out[1] * VScale >= OperandB /\ probe.out[1] >= probe.out[2])

\* C16 amended: 'max-=b' resolves to the smaller of size - b and size lowered
\* by a negative underflow, rounded to whole pixels: at most round(size - b),
\* at most the resolved plain 'max', and at most size - b when that is a whole
\* number of pixels; 'min+=b' resolves to the larger of b and a positive
\* overflow, rounded: at least round(b), at least the resolved plain 'min',
\* and at least b when b is a whole number of pixels
C16_ClampedRounded ==
  /\ ClampedCase("max", "-") =>
       /\ OperandB >= 0
       /\ probe.out[1] = Nearest(Smaller(probe.args[2] - OperandB,
                                         probe.args[2] + Smaller(probe.args[3], 0)))
       /\ probe.out[3] = Nearest(probe.args[2] + Smaller(probe.args[3], 0))
       /\ probe.out[1] <= Nearest(probe.args[2] - OperandB)
       /\ probe.out[1] <= probe.out[3]
       /\ (probe.args[2] - OperandB) % VScale = 0
            => probe.out[1] * VScale <= probe.args[2] - OperandB
  /\ ClampedCase("min", "+") =>
       /\ OperandB >= 0
       /\ probe.out[1] = Nearest(Larger(OperandB, Larger(probe.args[4], 0)))
       /\ probe.out[2] = Nearest(Larger(probe.args[4], 0))
       /\ probe.out[1] >= Nearest(OperandB)
       /\ probe.out[1] >= probe.out[2]
       /\ OperandB % VScale = 0 => probe.out[1] * VScale >= OperandB

C16_Witness ==
  /\ ClampedCase("max", "-") /\ OperandB = 20 * VScale
  /\ probe.args[2] = 200 * VScale /\ probe.args[3] < 0
  /\ probe.out[1] = 180 /\ probe.out[3] = 199

\* The calls cb of observer o in the log ev, in order
CallsIn(ev, o, cb) == SelectSeq(ev, LAMBDA e : e.o = o /\ e.cb = cb)

\* The currentTime the linked object of observer o had when the step began:
\* the object handed to link(), or the one already linked
PriorTime(o) == IF hist'.act = "Link" THEN hist'.pre[1] ELSE obs[o].linkedTime

\* Observer o's updateBounds ran in the step, with a linked object
BoundsRanLinked(o) ==
  hist' # hist /\ obs'[o].linked /\ Len(CallsIn(hist'.ev, o, "updateBounds")) > 0

Unprepared(i) ==
  /\ hist.ev[i].cb = "updateBounds"
  /\ ~\E j \in 1..(i - 1) : hist.ev[j].cb = "ScrollContainer.updateBounds"

\* C18 as stated: every ScrollObserver.updateBounds, from a tracker refresh,
\* a debounced resize, the deferred first refresh, link() or a direct
\* refresh(), is preceded within the same operation by
\* ScrollContainer.updateBounds
C18_Original == \A i \in 1..Len(hist.ev) : ~Unprepared(i)

\* The last handler is one of the observer's own: the deferred first refresh,
\* link() or refresh()
ObserverOp == hist.act \in {"DeferredSync", "Link", "Refresh"}

\* The last handler is one of the tracker's: refresh() or the end of the
\* resize debounce
TrackerOp == hist.act \in {"TrackerRefresh", "ResizeElapse"}

\* C18, amended: a ScrollObserver.updateBounds reached from a tracker refresh
\* or a debounced resize is preceded within the same operation by
\* ScrollContainer.updateBounds, and measures against the surface as it is;
\* the deferred first refresh, link() and a direct refresh() never call
\* ScrollContainer.updateBounds, and measure against the geometry the tracker
\* cached when it last recomputed it
C18_TrackerOpsPrepareBounds ==
  /\ TrackerOp =>
       /\ \A i \in 1..Len(hist.ev) : ~Unprepared(i)
       /\ trk[hist.arg].height = dom.view
       /\ \A o \in ObsIds : Len(CallsIn(hist.ev, o, "updateBounds")) > 0 =>
             obs[o].offsetStart = obs[o].offset - dom.view
  /\ ObserverOp =>
       /\ \A i \in 1..Len(hist.ev) : hist.ev[i].cb # "ScrollContainer.updateBounds"
       /\ \A o \in ObsIds : Len(CallsIn(hist.ev, o, "updateBounds")) > 0 =>
             obs[o].offsetStart = obs[o].offset - trk[obs[o].container].height
  /\ ~(TrackerOp \/ ObserverOp) =>
       \A i \in 1..Len(hist.ev) : hist.ev[i].cb # "updateBounds"

C18_Witness ==
  /\ hist.act = "Refresh" /\ Len(CallsIn(hist.ev, 1, "updateBounds")) = 1
  /\ trk[obs[1].container].height # dom.view
  /\ obs[1].offsetStart = TargetOffset - trk[obs[1].container].height

\* The evaluations of observer 1 the handler of this step made
Evals == CallsIn(hist'.ev, 1, "handleScroll")

\* The handler of this step evaluated observer 1 once, at a scroll offset
\* that is exactly its start or its end bound
OnBound ==
  Len(Evals) = 1 /\ Evals[1].sc \in {obs'[1].offsetStart, obs'[1].offsetEnd}

\* The handler of this step evaluated observer 1 once, and the evaluation is
\* a transition into view
IntoView ==
  /\ Len(Evals) = 1 /\ ~Evals[1].wasIn
  /\ obs'[1].offsetStart < Evals[1].sc /\ Evals[1].sc < obs'[1].offsetEnd

\* C19: an observer that has never entered and is evaluated with the scroll
\* offset exactly on its start or end bound has onEnter called once in that
\* evaluation; once onEnter was called, no onEnter is called until onLeave
\* was called, wherever the surface scrolls; and after that onLeave the next
\* transition into view calls onEnter again
C19_EdgeEntersOnce ==
  [][/\ (~tally.entered /\ OnBound) =>
          (Len(CallsIn(hist'.ev, 1, "onEnter")) = 1 /\ tally'.open)
     /\ tally.open => Len(CallsIn(hist'.ev, 1, "onEnter")) = 0
     /\ (tally.entered /\ ~tally.open /\ IntoView) =>
          Len(CallsIn(hist'.ev, 1, "onEnter")) = 1
    ]_vars

\* The evaluation that moves into view after the entry on a bound: no onEnter
C19_Witness ==
  /\ hist.act = "Tick" /\ Len(CallsIn(hist.ev, 1, "handleScroll")) = 1
  /\ ~CallsIn(hist.ev, 1, "handleScroll")[1].wasIn /\ obs[1].isInView
  /\ Len(CallsIn(hist.ev, 1, "onEnter")) = 0
  /\ tally.entered /\ tally.open /\ ~tally.left

EnterFamily == {"onSyncEnter", "onEnter", "onSyncEnterForward", "onEnterForward",
                "onSyncEnterBackward", "onEnterBackward"}
LeaveFamily == {"onSyncLeave", "onLeave", "onSyncLeaveForward", "onLeaveForward",
                "onSyncLeaveBackward", "onLeaveBackward"}

\* The positions in the last handler's log of observer o's calls among fam
Positions(o, fam) ==
  {i \in 1..Len(hist.ev) : hist.ev[i].o = o /\ hist.ev[i].cb \in fam}

\* The backward flag of observer o's tracker for the observer's axis
AxisBackward(o) ==
  IF obs[o].horizontal THEN trk[obs[o].container].backwardX
                       ELSE trk[obs[o].container].backwardY

\* The callbacks an enter (kind "Enter") or a leave (kind "Leave") of observer
\* o calls, in order; a sync slot that holds noop makes no call: with two
\* sync methods the plain sync slot is set, with four the directional ones
Expected(o, kind) ==
  (IF obs[o].syncMethods \in 1..2 THEN <<"onSync" \o kind>> ELSE <<>>)
  \o <<"on" \o kind>>
  \o (IF obs[o].syncMethods > 2
        THEN <<"onSync" \o kind \o (IF AxisBackward(o) THEN "Backward" ELSE "Forward")>>
        ELSE <<>>)
  \o <<"on" \o kind \o (IF AxisBackward(o) THEN "Backward" ELSE "Forward")>>

\* Observer o's calls among fam in the last handler's log are the expected
\* ones of kind, one after the other
InOrder(o, fam, kind) ==
  \E first \in 1..Len(hist.ev) :
    /\ Positions(o, fam) = first..(first + Len(Expected(o, kind)) - 1)
    /\ \A k \in 1..Len(Expected(o, kind)) : hist.ev[first + k - 1].cb = Expected(o, kind)[k]

\* C20: whenever the enter callbacks of an observer fire, they run in the
\* order sync-enter, onEnter, then exactly one directional pair, the backward
\* one if and only if the tracker's backward flag for the observer's axis is
\* true, and hasEntered is true afterwards; whenever the leave callbacks fire,
\* they run in the order sync-leave, onLeave, then the directional leave pair
\* chosen the same way
C20_CallbackOrder ==
  \A o \in ObsIds :
    /\ Positions(o, EnterFamily) # {} => (InOrder(o, EnterFamily, "Enter") /\ obs[o].hasEntered)
    /\ Positions(o, LeaveFamily) # {} => (InOrder(o, LeaveFamily, "Leave") /\ ~obs[o].isInView)

C20_Witness ==
  /\ hist.act = "Tick" /\ obs[1].horizontal /\ obs[1].hasEntered
  /\ trk[obs[1].container].backwardX /\ ~trk[obs[1].container].backwardY
  /\ Positions(1, EnterFamily) = {2, 3, 4}
  /\ hist.ev[2].cb = "onSyncEnter" /\ hist.ev[3].cb = "onEnter"
  /\ hist.ev[4].cb = "onEnterBackward"

\* The handler of this step evaluated observer 1 exactly once
OneEval == Len(Evals) = 1

\* The observer seeks its linked object on the evaluations of this step
\* (line 852)
Seeking == obs'[1].linked /\ (obs'[1].syncEase \/ obs'[1].syncSmooth # 0)

\* linked.progress of observer 1's linked object was 1 when the step began
LinkedAtEnd == obs'[1].linked /\ roundDiv(PriorTime(1), MaxTime) = PScale

\* onLeave of observer 1 was called in this step
LeaveFired == Len(CallsIn(hist'.ev, 1, "onLeave")) > 0

\* The evaluation of this step meets the conditions of completion, with
\* syncCompleted as the sync-completion
Completing(syncCompleted) ==
  /\ ~obs[1].completed /\ Evals[1].p >= PScale /\ obs'[1].began
  /\ (~obs'[1].sync \/ syncCompleted)

\* completed of observer 1 becomes true exactly when met holds, and
\* onSyncComplete is called exactly then when sync is on; a handler that does
\* not evaluate the observer leaves completed alone
CompletesWhen(met) ==
  /\ (~obs[1].completed /\ obs'[1].completed) <=> met
  /\ Len(CallsIn(hist'.ev, 1, "onSyncComplete")) = (IF met /\ obs'[1].sync THEN 1 ELSE 0)

\* C21 as stated: completed becomes true on a tick if and only if it was
\* false, the tick's progress is >= 1, began is true and sync is off or the
\* linked object's progress was 1 or a leave fired on the tick in a sync mode
\* that is not velocity-smoothed; onSyncComplete is called exactly on those
\* ticks where sync is on
C21_Original ==
  [][OneEval =>
       CompletesWhen(Completing(LinkedAtEnd \/ (LeaveFired /\ obs'[1].syncSmooth = 0)))]_vars

\* C21, amended: as stated, with the linked object's progress counting only
\* in a mode that seeks it (an easing or a smoothing, with a linked object);
\* and no handler that does not evaluate the observer changes completed or
\* calls onSyncComplete
C21_CompletedIff ==
  [][/\ OneEval =>
          CompletesWhen(Completing((Seeking /\ LinkedAtEnd)
                                     \/ (LeaveFired /\ obs'[1].syncSmooth = 0)))
     /\ Len(Evals) = 0 =>
          /\ obs'[1].completed = obs[1].completed
          /\ Len(CallsIn(hist'.ev, 1, "onSyncComplete")) = 0
    ]_vars

\* A tick of an eased observer that completes without leaving, its linked
\* object being at progress 1
C21_Witness ==
  /\ hist.act = "Tick" /\ obs[1].completed /\ obs[1].syncEase /\ obs[1].syncSmooth = 0
  /\ Len(CallsIn(hist.ev, 1, "onSyncComplete")) = 1
  /\ Len(CallsIn(hist.ev, 1, "onLeave")) = 0
  /\ obs[1].linkedTime = MaxTime * PScale

\* Observer 1 detaches in this step
Detaches == Attached(1) /\ ~Attached(1)'

\* C22: at the tick on which completed is set, the observer detaches itself
\* if and only if repeat is false and there is no linked object or the linked
\* object reports completed; an observer with repeat false whose linked
\* object was not completed at that tick stays attached.  (No other step of
\* the specification detaches the observer.)
C22_SelfDetachIff ==
  [][/\ (OneEval /\ ~obs[1].completed /\ obs'[1].completed) =>
          /\ Detaches <=> (~obs'[1].repeat /\ (~obs'[1].linked \/ obs[1].linkedCompleted))
          /\ Detaches <=> (~obs[1].gSelf /\ obs'[1].gSelf)
     /\ Detaches => (OneEval /\ ~obs[1].completed /\ obs'[1].completed)
    ]_vars

\* A tick that completes an observer with repeat false whose linked object
\* does not report completed: it stays attached
C22_Witness ==
  /\ hist.act = "Tick" /\ obs[1].completed /\ ~obs[1].repeat
  /\ obs[1].linked /\ ~obs[1].linkedCompleted
  /\ Len(CallsIn(hist.ev, 1, "onSyncComplete")) = 1
  /\ Attached(1) /\ ~obs[1].gSelf

\* C23: at the end of every tick, completed implies that the tick's
\* remapped progress is >= 1 and that began is true; a tick that sees a
\* progress below 1 ends with completed false; and a tick with the scroll
\* offset at or below the start bound ends with began false
C23_CompletedBegan ==
  LET evals == CallsIn(hist.ev, 1, "handleScroll")
  IN  \A i \in 1..Len(evals) :
        i = Len(evals) =>
          /\ obs[1].completed => (evals[i].p >= PScale /\ obs[1].began)
          /\ evals[i].p < PScale => ~obs[1].completed
          /\ evals[i].sc <= obs[1].offsetStart => ~obs[1].began

\* A tick that finds the observer completed and leaves it so: sync is on and
\* onSyncComplete is not called
C23_Witness ==
  /\ hist.act = "Tick" /\ Len(CallsIn(hist.ev, 1, "handleScroll")) = 1
  /\ obs[1].completed /\ obs[1].began /\ obs[1].sync /\ obs[1].syncEase
  /\ CallsIn(hist.ev, 1, "handleScroll")[1].p = PScale
  /\ Len(CallsIn(hist.ev, 1, "onSyncComplete")) = 0

\* The places of observer o's calls of cb in the last handler's log
Places(o, cb) == {i \in 1..Len(hist.ev) : hist.ev[i].o = o /\ hist.ev[i].cb = cb}

\* Observer 1 seeks its linked object when it is evaluated (line 852)
Seeks == obs[1].linked /\ (obs[1].syncEase \/ obs[1].syncSmooth # 0)

\* C24: onUpdate is called in every evaluation in which the observer is in
\* view (the scroll offset strictly inside its bounds) or was in view at the
\* end of the previous one, on the evaluation that leaves before the leave
\* callbacks; and an observer that does not seek a linked object has it
\* called in no other evaluation
C24_UpdateDispatch ==
  (Len(CallsIn(hist.ev, 1, "handleScroll")) = 1) =>
    LET e == CallsIn(hist.ev, 1, "handleScroll")[1]
        inView == obs[1].offsetStart < e.sc /\ e.sc < obs[1].offsetEnd
    IN  /\ (inView \/ e.wasIn) => Cardinality(Places(1, "onUpdate")) = 1
        /\ (~Seeks /\ ~inView /\ ~e.wasIn) => Places(1, "onUpdate") = {}
        /\ \A i \in Places(1, "onUpdate") : \A j \in Positions(1, LeaveFamily) : i < j
        /\ \A i \in Places(1, "onUpdate") : \A j \in Positions(1, EnterFamily) : j < i

\* The tick that leaves: onUpdate, then the leave callbacks
C24_Witness ==
  /\ hist.act = "Tick" /\ Len(CallsIn(hist.ev, 1, "handleScroll")) = 1
  /\ CallsIn(hist.ev, 1, "handleScroll")[1].wasIn /\ ~obs[1].isInView
  /\ Cardinality(Places(1, "onUpdate")) = 1 /\ Places(1, "onLeave") # {}
  /\ \A i \in Places(1, "onUpdate") : \A j \in Places(1, "onLeave") : i < j
  /\ ~Seeks

\* How often the method at place k of the sync parameter's names was called
\* on observer 1's linked object in the last handler
MethodCalls(k) ==
  Cardinality({i \in Places(1, "linked.method") : hist.ev[i].p = k})

\* The seeks of observer 1's linked object in the last handler that are not
\* the muted ones of updateBounds
TickSeeks == {i \in Places(1, "linked.seek") : ~hist.ev[i].wasIn}

\* C25: with a sync parameter that names methods, no evaluation seeks the
\* linked object; with one or two names the first is called on the linked
\* object on every enter and the second on every leave, whatever the
\* direction; with more than two names the first four are called only on
\* enter-forward, leave-forward, enter-backward and leave-backward, and
\* nothing is called on the edges without direction
C25_MethodTriggers ==
  (obs[1].made /\ obs[1].syncMethods > 0) =>
    /\ TickSeeks = {}
    /\ ~obs[1].linked => Places(1, "linked.method") = {}
    /\ (obs[1].linked /\ obs[1].syncMethods <= 2) =>
         /\ MethodCalls(1) = Cardinality(Places(1, "onEnter"))
         /\ MethodCalls(2) = (IF obs[1].syncMethods = 2
                                THEN Cardinality(Places(1, "onLeave")) ELSE 0)
         /\ MethodCalls(3) = 0 /\ MethodCalls(4) = 0
    /\ (obs[1].linked /\ obs[1].syncMethods > 2) =>
         /\ MethodCalls(1) = Cardinality(Places(1, "onEnterForward"))
         /\ MethodCalls(2) = Cardinality(Places(1, "onLeaveForward"))
         /\ MethodCalls(3) = Cardinality(Places(1, "onEnterBackward"))
         /\ MethodCalls(4) = Cardinality(Places(1, "onLeaveBackward"))
         /\ \A i \in Places(1, "linked.method") :
              i < Len(hist.ev) /\ hist.ev[i + 1].cb \in
                {"onEnterForward", "onLeaveForward", "onEnterBackward", "onLeaveBackward"}

\* A tick that leaves backward with four method names: the fourth is called
C25_Witness ==
  /\ hist.act = "Tick" /\ obs[1].linked /\ obs[1].syncMethods = 4
  /\ MethodCalls(4) = 1 /\ Places(1, "onLeaveBackward") # {}
  /\ MethodCalls(1) = 0 /\ MethodCalls(2) = 0 /\ MethodCalls(3) = 0

\* Observer 1 seeks its linked object through the velocity smoothing on the
\* evaluations of this step: sync is a number below 1 (lines 876-878)
Smooths == Seeking /\ obs'[1].syncSmooth \in 1..(SmoothUnit - 1)

\* The true progress of the one evaluation of this step: the progress getter
\* at the scroll offset the evaluation read
TrueProgress == progress(Evals[1].sc, obs'[1].offsetStart, obs'[1].distance)

\* The step is the end of a wake window, the frame loop comes to rest, and
\* observer 1 has been smoothing towards its linked object
RestsSmoothed ==
  /\ \E t \in TrkIds : Stepped("WakeElapse", t)
  /\ obs[1].made /\ obs[1].linked /\ ~obs[1].reverted
  /\ obs[1].syncSmooth \in 1..(SmoothUnit - 1)

\* The true progress of observer 1 in the current state
RestProgress == progress(scroll(State, 1), obs[1].offsetStart, obs[1].distance)

\* C26: every evaluation of a smoothing observer that changes the remapped
\* progress restarts the wake window; the frame loop comes to rest only with
\* the remapped progress equal to the true progress, hence exactly 1 or 0 when
\* the true progress is 1 or 0; with syncSmooth = 1 every evaluation goes on
\* with the true progress; and, with frames running while a window is open,
\* the frame loop comes to rest again and again
C26_SmoothConverges ==
  /\ [][/\ (OneEval /\ Smooths /\ trk[obs'[1].container].wakeTicker = "open"
             /\ Evals[1].p # obs[1].prevProgress)
            => trk'[obs'[1].container].wakeTicker = "armed"
        /\ RestsSmoothed => obs[1].prevProgress = RestProgress
        /\ (OneEval /\ Seeking /\ obs'[1].syncSmooth = SmoothUnit)
            => Evals[1].p = TrueProgress
       ]_vars
  /\ []<>Quiet

\* The onEnter and onLeave calls of observer 1 in ev, from the i-th on, take
\* turns: onEnter only while no enter is open, onLeave only while one is
RECURSIVE TakeTurns(_, _, _)
TakeTurns(ev, i, open) ==
  IF i > Len(ev) THEN TRUE
  ELSE IF ev[i].o = 1 /\ ev[i].cb = "onEnter" THEN ~open /\ TakeTurns(ev, i + 1, TRUE)
  ELSE IF ev[i].o = 1 /\ ev[i].cb = "onLeave" THEN open /\ TakeTurns(ev, i + 1, FALSE)
  ELSE TakeTurns(ev, i + 1, open)

\* C27: over every run of ticks, refreshes, resizes and scroll offsets the
\* onEnter and onLeave calls of an observer take turns, onEnter first: onLeave
\* is called only after an onEnter that no onLeave followed, onEnter only when
\* no earlier onEnter is still without its onLeave, no handler calls both, and
\* in every state isInView implies hasEntered
C27_EnterLeaveTurns ==
  /\ [](\A o \in ObsIds : obs[o].isInView => obs[o].hasEntered)
  /\ [][hist' # hist =>
          /\ TakeTurns(hist'.ev, 1, tally.open)
          /\ ~(Len(CallsIn(hist'.ev, 1, "onEnter")) > 0
                /\ Len(CallsIn(hist'.ev, 1, "onLeave")) > 0)
          /\ Len(CallsIn(hist'.ev, 1, "onLeave")) > 0 => tally.entered
       ]_vars

\* A tick called onEnter of observer 1 again, after an earlier onEnter and the
\* onLeave that followed it
C27_Witness ==
  /\ hist.act = "Tick" /\ Len(CallsIn(hist.ev, 1, "onEnter")) = 1
  /\ tally.left /\ tally.open /\ obs[1].isInView /\ obs[1].hasEntered

\* C28: an observer attached to a tracker that was already ticking (observer
\* 2 of SpecAttach) has hasEntered = false, and no handler calls one of its
\* enter, leave or update callbacks, as long as its deferred first bounds
\* computation has not run; so no enter is decided against the zero bounds
\* the constructor leaves
C28_NothingBeforeBounds ==
  (obs[2].made /\ obs[2].pendingSync) =>
    /\ ~obs[2].hasEntered
    /\ Positions(2, EnterFamily \cup LeaveFamily \cup {"onUpdate"}) = {}

====
